---- MODULE Spec2Model ----
(***************************************************************************)
(* Phishing detection engine of ai-anti-spam-shield-service-model          *)
(* (app/detectors/phishing_detector.py) and the batch endpoint of          *)
(* app/main.py.                                                            *)
(*                                                                         *)
(* Representation.  A Python str is a sequence of one-character strings.   *)
(* A message text is a sequence of tokens joined by single spaces; a token *)
(* is a str without internal line breaks (a word, a phrase, a run of       *)
(* blanks, or a URL).  Scores that Python holds as floats are held as      *)
(* exact decimals: component scores in hundredths (0.30 is 30), the        *)
(* ensemble score in millionths (0.225 is 225000).                         *)
(***************************************************************************)
EXTENDS Integers, Sequences, FiniteSets, TLC

VARIABLES
  req_text,           \* the text of the pending /predict-phishing request
  req_scan_type,      \* its scan_type
  req_items,          \* the items of the pending /batch-phishing request
  ml_model,           \* PhishingDetector.ml_model
  transformer_model,  \* PhishingDetector.transformer_model
  hash_seed,          \* the str hash seed of the running process
  result,             \* the PhishingResult of the latest detect call
  last_calls,         \* the methods and collaborators the latest detect called
  raised,             \* whether an exception left the latest detect call
  batch_response,     \* the latest /batch-phishing response
  threads,            \* the detect calls in flight on the one detector, per thread
  call,               \* a method of the detector and the arguments it is called with
  ret,                \* what that method returned
  registry,           \* ModelRegistry.registry: versions, deployed and history
  clock,              \* the instant datetime.now() gives
  scheduler           \* a WeeklyRetrainingScheduler: is_running and its run_weekly_job calls

vars == <<req_text, req_scan_type, req_items, ml_model, transformer_model,
          hash_seed, result, last_calls, raised, batch_response, threads, call, ret,
          registry, clock, scheduler>>

(***************************************************************************)
(* Class constants of PhishingDetector                                     *)
(***************************************************************************)

KNOWN_BRANDS ==
  << <<"p","a","y","p","a","l">>,
     <<"v","e","n","m","o">>,
     <<"z","e","l","l","e">>,
     <<"c","a","s","h","a","p","p">>,
     <<"w","i","s","e">>,
     <<"s","t","r","i","p","e">>,
     <<"s","q","u","a","r","e">>,
     <<"a","m","a","z","o","n">>,
     <<"e","b","a","y">>,
     <<"w","a","l","m","a","r","t">>,
     <<"t","a","r","g","e","t">>,
     <<"c","o","s","t","c","o">>,
     <<"b","e","s","t","b","u","y">>,
     <<"a","l","i","e","x","p","r","e","s","s">>,
     <<"s","h","o","p","i","f","y">>,
     <<"e","t","s","y">>,
     <<"n","e","t","f","l","i","x">>,
     <<"s","p","o","t","i","f","y">>,
     <<"h","u","l","u">>,
     <<"d","i","s","n","e","y">>,
     <<"h","b","o","m","a","x">>,
     <<"p","r","i","m","e","v","i","d","e","o">>,
     <<"y","o","u","t","u","b","e">>,
     <<"t","w","i","t","c","h">>,
     <<"a","p","p","l","e">>,
     <<"m","i","c","r","o","s","o","f","t">>,
     <<"g","o","o","g","l","e">>,
     <<"m","e","t","a">>,
     <<"o","r","a","c","l","e">>,
     <<"s","a","l","e","s","f","o","r","c","e">>,
     <<"s","a","p">>,
     <<"f","a","c","e","b","o","o","k">>,
     <<"i","n","s","t","a","g","r","a","m">>,
     <<"w","h","a","t","s","a","p","p">>,
     <<"t","w","i","t","t","e","r">>,
     <<"t","i","k","t","o","k">>,
     <<"s","n","a","p","c","h","a","t">>,
     <<"t","e","l","e","g","r","a","m">>,
     <<"d","i","s","c","o","r","d">>,
     <<"r","e","d","d","i","t">>,
     <<"c","h","a","s","e">>,
     <<"w","e","l","l","s","f","a","r","g","o">>,
     <<"b","a","n","k","o","f","a","m","e","r","i","c","a">>,
     <<"c","i","t","i","b","a","n","k">>,
     <<"u","s","b","a","n","k">>,
     <<"p","n","c">>,
     <<"c","a","p","i","t","a","l","o","n","e">>,
     <<"d","i","s","c","o","v","e","r">>,
     <<"h","s","b","c">>,
     <<"b","a","r","c","l","a","y","s">>,
     <<"n","a","t","w","e","s","t">>,
     <<"s","a","n","t","a","n","d","e","r">>,
     <<"i","n","g">>,
     <<"b","n","p">>,
     <<"d","e","u","t","s","c","h","e","b","a","n","k">>,
     <<"u","s","p","s">>,
     <<"f","e","d","e","x">>,
     <<"u","p","s">>,
     <<"d","h","l">>,
     <<"r","o","y","a","l","m","a","i","l">>,
     <<"c","a","n","a","d","a","p","o","s","t">>,
     <<"a","u","s","p","o","s","t">>,
     <<"i","r","s">>,
     <<"s","s","a">>,
     <<"d","m","v">>,
     <<"h","m","r","c">>,
     <<"m","e","d","i","c","a","r","e">>,
     <<"s","o","c","i","a","l","s","e","c","u","r","i","t","y">>,
     <<"d","r","o","p","b","o","x">>,
     <<"a","d","o","b","e">>,
     <<"z","o","o","m">>,
     <<"s","l","a","c","k">>,
     <<"t","e","a","m","s">>,
     <<"g","i","t","h","u","b">>,
     <<"g","i","t","l","a","b">>,
     <<"n","o","t","i","o","n">>,
     <<"t","r","e","l","l","o">>,
     <<"d","o","c","u","s","i","g","n">>,
     <<"o","n","e","d","r","i","v","e">>,
     <<"i","c","l","o","u","d">>,
     <<"g","d","r","i","v","e">>,
     <<"y","a","h","o","o">>,
     <<"o","u","t","l","o","o","k">>,
     <<"o","f","f","i","c","e","3","6","5">>,
     <<"g","m","a","i","l">>,
     <<"p","r","o","t","o","n","m","a","i","l">>,
     <<"a","o","l">>,
     <<"h","o","t","m","a","i","l">>,
     <<"c","o","i","n","b","a","s","e">>,
     <<"b","i","n","a","n","c","e">>,
     <<"k","r","a","k","e","n">>,
     <<"m","e","t","a","m","a","s","k">>,
     <<"l","e","d","g","e","r">>,
     <<"t","r","e","z","o","r">>,
     <<"o","p","e","n","s","e","a">>,
     <<"n","o","r","t","o","n">>,
     <<"m","c","a","f","e","e">>,
     <<"a","v","a","s","t">>,
     <<"k","a","s","p","e","r","s","k","y">>,
     <<"b","i","t","d","e","f","e","n","d","e","r">>,
     <<"v","e","r","i","z","o","n">>,
     <<"a","t","t">>,
     <<"t","m","o","b","i","l","e">>,
     <<"s","p","r","i","n","t">>,
     <<"v","o","d","a","f","o","n","e">>,
     <<"c","o","m","c","a","s","t">>,
     <<"s","p","e","c","t","r","u","m">>,
     <<"l","i","n","k","e","d","i","n">>,
     <<"i","n","d","e","e","d">>,
     <<"g","l","a","s","s","d","o","o","r">>,
     <<"a","i","r","b","n","b">>,
     <<"u","b","e","r">>,
     <<"l","y","f","t">>,
     <<"d","o","o","r","d","a","s","h">>,
     <<"g","r","u","b","h","u","b">> >>

SUSPICIOUS_TLDS ==
  << <<"t","k">>,
     <<"m","l">>,
     <<"g","a">>,
     <<"c","f">>,
     <<"g","q">>,
     <<"x","y","z">>,
     <<"t","o","p">>,
     <<"w","o","r","k">>,
     <<"c","l","i","c","k">>,
     <<"l","i","n","k">>,
     <<"i","n","f","o">>,
     <<"o","n","l","i","n","e">>,
     <<"s","i","t","e">>,
     <<"w","e","b","s","i","t","e">>,
     <<"s","p","a","c","e">>,
     <<"p","w">>,
     <<"c","c">>,
     <<"s","u">>,
     <<"b","u","z","z">>,
     <<"f","i","t">>,
     <<"l","o","a","n">>,
     <<"d","o","w","n","l","o","a","d">>,
     <<"s","t","r","e","a","m">>,
     <<"w","i","n">>,
     <<"r","e","v","i","e","w">>,
     <<"c","o","u","n","t","r","y">>,
     <<"k","i","m">>,
     <<"s","c","i","e","n","c","e">>,
     <<"p","a","r","t","y">>,
     <<"d","a","t","e">>,
     <<"a","c","c","o","u","n","t","a","n","t">>,
     <<"c","r","i","c","k","e","t">>,
     <<"r","a","c","i","n","g">>,
     <<"g","d","n">>,
     <<"m","e","n">>,
     <<"f","a","i","t","h">>,
     <<"w","e","b","c","a","m">>,
     <<"b","i","d">>,
     <<"t","r","a","d","e">>,
     <<"i","c","u">>,
     <<"r","e","s","t">>,
     <<"l","i","f","e">>,
     <<"l","i","v","e">>,
     <<"r","o","c","k","s">>,
     <<"w","o","r","l","d">>,
     <<"t","o","d","a","y">>,
     <<"s","o","l","u","t","i","o","n","s">>,
     <<"s","u","p","p","o","r","t">>,
     <<"s","e","r","v","i","c","e","s">>,
     <<"c","e","n","t","e","r">>,
     <<"z","o","n","e">>,
     <<"e","m","a","i","l">>,
     <<"t","e","c","h">>,
     <<"h","o","s","t">>,
     <<"f","u","n">>,
     <<"m","o","n","s","t","e","r">> >>

URL_SHORTENERS ==
  << <<"b","i","t",".","l","y">>,
     <<"t","i","n","y","u","r","l",".","c","o","m">>,
     <<"t",".","c","o">>,
     <<"g","o","o",".","g","l">>,
     <<"o","w",".","l","y">>,
     <<"i","s",".","g","d">>,
     <<"b","u","f","f",".","l","y">>,
     <<"a","d","f",".","l","y">>,
     <<"j",".","m","p">>,
     <<"t","r",".","i","m">>,
     <<"c","u","t","t",".","l","y">>,
     <<"r","b",".","g","y">>,
     <<"s","h","o","r","t","u","r","l",".","a","t">>,
     <<"t","i","n","y",".","c","c">>,
     <<"l","n","k","d",".","i","n">>,
     <<"s","o","o",".","g","d">>,
     <<"c","l","c","k",".","r","u">>,
     <<"s",".","i","d">>,
     <<"r","o","t","f",".","l","o","l">>,
     <<"v",".","g","d">>,
     <<"q","r",".","a","e">>,
     <<"u",".","t","o">>,
     <<"s","h","o","r","t",".","i","o">>,
     <<"r","e","b","r","a","n","d",".","l","y">>,
     <<"b","l",".","i","n","k">>,
     <<"s","h","o","r","t","e",".","s","t">>,
     <<"o","u","o",".","i","o">>,
     <<"b","c",".","v","c">> >>

suspicious_phrases ==
  << <<"c","l","i","c","k"," ","h","e","r","e">>,
     <<"v","e","r","i","f","y"," ","y","o","u","r">>,
     <<"c","o","n","f","i","r","m"," ","y","o","u","r">>,
     <<"u","p","d","a","t","e"," ","y","o","u","r">>,
     <<"u","n","u","s","u","a","l"," ","a","c","t","i","v","i","t","y">>,
     <<"s","e","c","u","r","i","t","y"," ","a","l","e","r","t">>,
     <<"a","c","c","o","u","n","t"," ","l","o","c","k","e","d">>,
     <<"w","i","n","n","e","r">>,
     <<"c","o","n","g","r","a","t","u","l","a","t","i","o","n","s">>,
     <<"p","r","i","z","e">>,
     <<"f","r","e","e"," ","g","i","f","t">>,
     <<"d","e","l","i","v","e","r","y"," ","f","a","i","l","e","d">>,
     <<"p","a","c","k","a","g","e"," ","c","o","u","l","d"," ","n","o","t">>,
     <<"r","e","s","c","h","e","d","u","l","e"," ","d","e","l","i","v","e","r","y">>,
     <<"c","o","u","l","d"," ","n","o","t"," ","b","e"," ","d","e","l","i","v","e","r","e","d">>,
     <<"w","i","l","l"," ","b","e"," ","r","e","t","u","r","n","e","d">>,
     <<"r","e","t","u","r","n","e","d"," ","t","o"," ","s","e","n","d","e","r">>,
     <<"t","r","a","c","k","i","n","g"," ","n","u","m","b","e","r">>,
     <<"c","u","s","t","o","m","s"," ","f","e","e">>,
     <<"d","e","l","i","v","e","r","y"," ","f","e","e">>,
     <<"r","e","d","e","l","i","v","e","r","y">>,
     <<"u","n","d","e","l","i","v","e","r","a","b","l","e">>,
     <<"a","t","t","e","m","p","t","e","d"," ","d","e","l","i","v","e","r","y">>,
     <<"d","e","l","i","v","e","r","y"," ","a","t","t","e","m","p","t">>,
     <<"s","u","b","s","c","r","i","p","t","i","o","n"," ","e","x","p","i","r","e","d">>,
     <<"s","u","b","s","c","r","i","p","t","i","o","n"," ","h","a","s"," ","e","x","p","i","r","e","d">>,
     <<"s","e","r","v","i","c","e"," ","i","n","t","e","r","r","u","p","t","i","o","n">>,
     <<"a","c","c","o","u","n","t"," ","h","a","s"," ","b","e","e","n">>,
     <<"h","a","s"," ","b","e","e","n"," ","l","o","c","k","e","d">>,
     <<"h","a","s"," ","b","e","e","n"," ","s","u","s","p","e","n","d","e","d">>,
     <<"a","v","o","i","d"," ","s","u","s","p","e","n","s","i","o","n">>,
     <<"a","v","o","i","d"," ","s","e","r","v","i","c","e">>,
     <<"t","o"," ","a","v","o","i","d">>,
     <<"s","t","o","r","a","g","e"," ","i","s"," ","f","u","l","l">>,
     <<"s","t","o","r","a","g","e"," ","f","u","l","l">>,
     <<"u","p","g","r","a","d","e"," ","n","o","w">>,
     <<"v","i","r","u","s"," ","d","e","t","e","c","t","e","d">>,
     <<"c","o","m","p","u","t","e","r"," ","i","n","f","e","c","t","e","d">>,
     <<"c","a","l","l"," ","m","i","c","r","o","s","o","f","t">>,
     <<"t","e","c","h","n","i","c","a","l"," ","s","u","p","p","o","r","t">>,
     <<"r","e","m","o","t","e"," ","a","c","c","e","s","s">>,
     <<"d","a","t","a"," ","l","o","s","s">>,
     <<"s","e","n","d"," ","m","o","n","e","y">>,
     <<"w","i","r","e"," ","f","u","n","d","s">>,
     <<"w","e","s","t","e","r","n"," ","u","n","i","o","n">>,
     <<"g","i","f","t"," ","c","a","r","d">>,
     <<"w","o","r","k"," ","f","r","o","m"," ","h","o","m","e">>,
     <<"e","a","s","y"," ","m","o","n","e","y">>,
     <<"n","o"," ","e","x","p","e","r","i","e","n","c","e"," ","n","e","e","d","e","d">>,
     <<"m","a","k","e"," ","m","o","n","e","y"," ","f","a","s","t">>,
     <<"g","u","a","r","a","n","t","e","e","d"," ","i","n","c","o","m","e">>,
     <<"t","a","x"," ","r","e","f","u","n","d">>,
     <<"i","r","s"," ","n","o","t","i","c","e">>,
     <<"s","o","c","i","a","l"," ","s","e","c","u","r","i","t","y">>,
     <<"a","r","r","e","s","t"," ","w","a","r","r","a","n","t">>,
     <<"l","e","g","a","l"," ","a","c","t","i","o","n">>,
     <<"i","m","m","e","d","i","a","t","e","l","y">>,
     <<"r","i","g","h","t"," ","n","o","w">>,
     <<"a","c","t"," ","n","o","w">>,
     <<"e","x","p","i","r","e","s">>,
     <<"l","i","m","i","t","e","d"," ","t","i","m","e">>,
     <<"b","e","f","o","r","e"," ","i","t">>,
     <<"o","r"," ","i","t"," ","w","i","l","l">>,
     <<"s","e","e"," ","w","h","o">>,
     <<"f","i","n","d"," ","o","u","t"," ","w","h","o">>,
     <<"s","o","m","e","o","n","e"," ","v","i","e","w","e","d">>,
     <<"v","i","e","w","e","d"," ","y","o","u","r">>,
     <<"l","o","o","k","e","d"," ","a","t"," ","y","o","u","r">>,
     <<"d","o","c","u","m","e","n","t"," ","r","e","a","d","y">>,
     <<"r","e","a","d","y"," ","f","o","r"," ","s","i","g","n","a","t","u","r","e">>,
     <<"s","i","g","n"," ","d","o","c","u","m","e","n","t">>,
     <<"p","e","n","d","i","n","g"," ","s","i","g","n","a","t","u","r","e">> >>

suspicious_url_keywords ==
  << <<"l","o","g","i","n">>,
     <<"s","i","g","n","i","n">>,
     <<"s","i","g","n","-","i","n">>,
     <<"l","o","g","o","n">>,
     <<"l","o","g","-","o","n">>,
     <<"v","e","r","i","f","y">>,
     <<"v","e","r","i","f","i","c","a","t","i","o","n">>,
     <<"v","a","l","i","d","a","t","e">>,
     <<"c","o","n","f","i","r","m">>,
     <<"s","e","c","u","r","e">>,
     <<"s","e","c","u","r","i","t","y">>,
     <<"a","c","c","o","u","n","t">>,
     <<"a","c","c","o","u","n","t","s">>,
     <<"u","p","d","a","t","e">>,
     <<"u","p","g","r","a","d","e">>,
     <<"r","e","n","e","w">>,
     <<"r","e","s","t","o","r","e">>,
     <<"p","a","s","s","w","o","r","d">>,
     <<"p","a","s","s","w","d">>,
     <<"c","r","e","d","e","n","t","i","a","l">>,
     <<"a","u","t","h","e","n","t","i","c","a","t","e">>,
     <<"a","u","t","h","e","n","t","i","c","a","t","i","o","n">>,
     <<"a","u","t","h">>,
     <<"b","i","l","l","i","n","g">>,
     <<"p","a","y","m","e","n","t">>,
     <<"i","n","v","o","i","c","e">>,
     <<"s","u","s","p","e","n","d","e","d">>,
     <<"l","o","c","k","e","d">>,
     <<"d","i","s","a","b","l","e","d">>,
     <<"w","e","b","m","a","i","l">>,
     <<"w","e","b","a","c","c","e","s","s">>,
     <<"p","o","r","t","a","l">>,
     <<"r","e","d","i","r","e","c","t">>,
     <<"t","r","a","c","k">>,
     <<"c","l","i","c","k">> >>

lookalike_patterns ==
  << <<"-","l","o","g","i","n">>,
     <<"-","s","e","c","u","r","e">>,
     <<"-","v","e","r","i","f","y">>,
     <<"-","s","u","p","p","o","r","t">>,
     <<"-","a","c","c","o","u","n","t">>,
     <<"-","u","p","d","a","t","e">>,
     <<"-","a","l","e","r","t">>,
     <<"l","o","g","i","n","-">>,
     <<"s","e","c","u","r","e","-">>,
     <<"a","c","c","o","u","n","t","-">> >>

file_extensions ==
  << <<"h","t","m">>,
     <<"h","t","m","l">>,
     <<"p","h","p">>,
     <<"a","s","p">>,
     <<"e","x","e">>,
     <<"s","c","r">>,
     <<"b","a","t">>,
     <<"c","m","d">>,
     <<"j","s">>,
     <<"v","b","s">> >>

crypto_brands ==
  << <<"b","i","n","a","n","c","e">>,
     <<"c","o","i","n","b","a","s","e">>,
     <<"m","e","t","a","m","a","s","k">>,
     <<"k","r","a","k","e","n">>,
     <<"l","e","d","g","e","r">>,
     <<"t","r","e","z","o","r">> >>

\* Log2Table[n][c] is log2(n / c) in ten-thousandths, for 1 <= c <= n <= 16
Log2Table ==
  << <<0>>,
     <<10000,0>>,
     <<15850,5850,0>>,
     <<20000,10000,4150,0>>,
     <<23219,13219,7370,3219,0>>,
     <<25850,15850,10000,5850,2630,0>>,
     <<28074,18074,12224,8074,4854,2224,0>>,
     <<30000,20000,14150,10000,6781,4150,1926,0>>,
     <<31699,21699,15850,11699,8480,5850,3626,1699,0>>,
     <<33219,23219,17370,13219,10000,7370,5146,3219,1520,0>>,
     <<34594,24594,18745,14594,11375,8745,6521,4594,2895,1375,0>>,
     <<35850,25850,20000,15850,12630,10000,7776,5850,4150,2630,1255,0>>,
     <<37004,27004,21155,17004,13785,11155,8931,7004,5305,3785,2410,1155,0>>,
     <<38074,28074,22224,18074,14854,12224,10000,8074,6374,4854,3479,2224,1069,0>>,
     <<39069,29069,23219,19069,15850,13219,10995,9069,7370,5850,4475,3219,2065,995,0>>,
     <<40000,30000,24150,20000,16781,14150,11926,10000,8301,6781,5406,4150,2996,1926,931,0>> >>

(***************************************************************************)
(* str primitives                                                          *)
(***************************************************************************)
UpperChars == <<"A","B","C","D","E","F","G","H","I","J","K","L","M",
                "N","O","P","Q","R","S","T","U","V","W","X","Y","Z">>

LowerChars == <<"a","b","c","d","e","f","g","h","i","j","k","l","m",
                "n","o","p","q","r","s","t","u","v","w","x","y","z">>

DigitChars == {"0","1","2","3","4","5","6","7","8","9"}

HexChars == DigitChars \cup {"a","b","c","d","e","f"}

Range(s) == {s[i] : i \in DOMAIN s}

\* the characters regex \w matches, for the alphabet of the vocabulary
WordChars == Range(UpperChars) \cup Range(LowerChars) \cup DigitChars \cup {"_"}

\* the characters regex \s matches
SpaceChars == {" "}

UpperSet == Range(UpperChars)

isupper(c) == c \in UpperSet

\* the lower-case letter of each capital
LowerOf == [c \in UpperSet |-> LowerChars[CHOOSE i \in 1..26 : UpperChars[i] = c]]

ToLower(c) == IF c \in UpperSet THEN LowerOf[c] ELSE c

\* str.lower()
lower(s) == [i \in 1..Len(s) |-> ToLower(s[i])]

\* s[i:i+n] = sub, with 1-based i
MatchAt(s, sub, i) ==
  /\ i >= 1
  /\ i + Len(sub) - 1 <= Len(s)
  /\ (Len(sub) = 0 \/ s[i] = sub[1])
  /\ SubSeq(s, i, i + Len(sub) - 1) = sub

\* sub in s
Contains(s, sub) == \E i \in 1..(Len(s) + 1) : MatchAt(s, sub, i)

\* s.startswith(p)
startswith(s, p) == MatchAt(s, p, 1)

\* s.endswith(p)
endswith(s, p) == Len(s) >= Len(p) /\ MatchAt(s, p, Len(s) - Len(p) + 1)

RECURSIVE CountFrom(_, _, _)
CountFrom(s, sub, i) ==
  IF i + Len(sub) - 1 > Len(s) THEN 0
  ELSE IF MatchAt(s, sub, i) THEN 1 + CountFrom(s, sub, i + Len(sub))
  ELSE CountFrom(s, sub, i + 1)

\* s.count(sub): non-overlapping occurrences, left to right
count(s, sub) == CountFrom(s, sub, 1)

\* number of characters of s that satisfy membership in set cs
CountChars(s, cs) == Cardinality({i \in DOMAIN s : s[i] \in cs})

\* index of the first character of s at or after i that is in cs, else Len(s)+1
RECURSIVE FindChar(_, _, _)
FindChar(s, cs, i) ==
  IF i > Len(s) THEN Len(s) + 1
  ELSE IF s[i] \in cs THEN i
  ELSE FindChar(s, cs, i + 1)

\* s.split(sep) for a one-character separator
RECURSIVE split(_, _)
split(s, sep) ==
  LET j == FindChar(s, {sep}, 1)
  IN  IF j > Len(s) THEN <<s>>
      ELSE <<SubSeq(s, 1, j - 1)>> \o split(SubSeq(s, j + 1, Len(s)), sep)

\* sep.join(parts)
RECURSIVE join(_, _)
join(parts, sep) ==
  IF Len(parts) = 0 THEN <<>>
  ELSE IF Len(parts) = 1 THEN parts[1]
  ELSE parts[1] \o sep \o join(Tail(parts), sep)

\* s.replace(old, new) for one-character old and new
replace(s, old, new) == [i \in 1..Len(s) |-> IF s[i] = old THEN new ELSE s[i]]

\* str(n) for n >= 0
RECURSIVE str(_)
str(n) ==
  LET d == <<"0","1","2","3","4","5","6","7","8","9">>
  IN  IF n < 10 THEN <<d[n + 1]>> ELSE str(n \div 10) \o <<d[(n % 10) + 1]>>

\* length of the run of characters of cs that starts at index i of s
RECURSIVE RunLen(_, _, _)
RunLen(s, cs, i) ==
  IF i > Len(s) \/ s[i] \notin cs THEN 0 ELSE 1 + RunLen(s, cs, i + 1)

\* len(s.split()): number of maximal runs of non-blank characters
WordCount(s) ==
  Cardinality({i \in DOMAIN s :
     s[i] \notin SpaceChars /\ (i = 1 \/ s[i - 1] \in SpaceChars)})

Min(a, b) == IF a < b THEN a ELSE b

Max(a, b) == IF a > b THEN a ELSE b

RECURSIVE SumSeq(_)
SumSeq(s) == IF Len(s) = 0 THEN 0 ELSE Head(s) + SumSeq(Tail(s))

RECURSIVE MaxSeq(_)
MaxSeq(s) == IF Len(s) = 1 THEN s[1] ELSE Max(s[1], MaxSeq(Tail(s)))

RECURSIVE Flatten(_)
Flatten(ss) == IF Len(ss) = 0 THEN <<>> ELSE Head(ss) \o Flatten(Tail(ss))

Reverse(s) == [i \in 1..Len(s) |-> s[Len(s) + 1 - i]]

\* Python's None and the empty dict
None == <<>>

(***************************************************************************)
(* tldextract.extract: split of a URL's host on the public suffix list     *)
(***************************************************************************)
\* the entries of the public suffix list that the hosts of the vocabulary,
\* the shortener list and the official-domain table end with
PUBLIC_SUFFIXES ==
  Range(SUSPICIOUS_TLDS) \cup
  { <<"c","o","m">>, <<"o","r","g">>, <<"n","e","t">>, <<"i","o">>, <<"c","o">>, <<"m","e">>, <<"u","s">>, <<"u","k">>, <<"c","o",".","u","k">>,
    <<"d","e">>, <<"f","r">>, <<"c","a">>, <<"i","n">>, <<"l","y">>, <<"g","l">>, <<"g","d">>, <<"r","u">>, <<"i","d">>, <<"t","o">> }

\* index of the first TRUE of a sequence of booleans, 0 if there is none
FirstTrue(flags) ==
  IF \E i \in DOMAIN flags : flags[i]
  THEN CHOOSE i \in DOMAIN flags : flags[i] /\ \A m \in 1..(i - 1) : ~flags[m]
  ELSE 0

\* s up to its first character in cs
Before(s, cs) == SubSeq(s, 1, FindChar(s, cs, 1) - 1)

Last(s) == s[Len(s)]

\* index of the character after the first "://" of url, 1 if there is none
AfterSchemeIndex(url) ==
  LET k == FirstTrue([i \in DOMAIN url |-> MatchAt(url, <<":","/","/">>, i)])
  IN  IF k = 0 THEN 1 ELSE k + 3

\* the host of a URL: after the scheme, up to the first of / ? #, after the
\* last @, before the first :
NetLoc(url) ==
  Before(Last(split(Before(SubSeq(url, AfterSchemeIndex(url), Len(url)),
                           {"/", "?", "#"}),
                    "@")),
         {":"})

\* a dotted quad of decimal groups
looks_like_ip(host) ==
  LET groups == split(host, ".")
  IN  /\ Len(groups) = 4
      /\ \A g \in DOMAIN groups :
           Len(groups[g]) \in 1..3 /\ Range(groups[g]) \subseteq DigitChars

ExtractResult(subdomain, domain, suffix) ==
  [subdomain |-> subdomain, domain |-> domain, suffix |-> suffix]

\* the split of the labels of a host whose public suffix starts at label
\* first; first is 0 when no suffix of the list matches
SplitLabels(labels, first) ==
  IF first = 0
  THEN ExtractResult(join(SubSeq(labels, 1, Len(labels) - 1), <<".">>),
                     labels[Len(labels)],
                     <<>>)
  ELSE ExtractResult(join(SubSeq(labels, 1, first - 2), <<".">>),
                     IF first = 1 THEN <<>> ELSE labels[first - 1],
                     join(SubSeq(labels, first, Len(labels)), <<".">>))

\* the longest suffix of the labels that is on the list starts at the first
\* label from which the joined labels are on the list
SplitHost(labels) ==
  SplitLabels(labels,
              FirstTrue([i \in DOMAIN labels |->
                           join(SubSeq(labels, i, Len(labels)), <<".">>) \in PUBLIC_SUFFIXES]))

ExtractHost(host) ==
  IF looks_like_ip(host) THEN ExtractResult(<<>>, host, <<>>)
  ELSE SplitHost(split(host, "."))

tldextract(url) == ExtractHost(lower(NetLoc(url)))

HAS_TLDEXTRACT == TRUE

(***************************************************************************)
(* brand_pattern: \b(paypal|venmo|...)\b, case-insensitive                 *)
(***************************************************************************)
\* regex \b holds between index i-1 and i of s (1-based, i in 1..Len(s)+1)
WordBoundary(s, i) ==
  LET before == i > 1 /\ s[i - 1] \in WordChars
      after == i <= Len(s) /\ s[i] \in WordChars
  IN  before # after

\* the alternative brand of the pattern matches at index i
BrandAltAt(s, brand, i) ==
  /\ MatchAt(lower(s), brand, i)
  /\ WordBoundary(s, i)
  /\ WordBoundary(s, i + Len(brand))

\* the alternative the regex engine takes at index i (0 if none): the first
\* in list order
BrandAt(s, i) ==
  FirstTrue([b \in DOMAIN KNOWN_BRANDS |-> BrandAltAt(s, KNOWN_BRANDS[b], i)])

RECURSIVE BrandFindFrom(_, _)

\* the matches from index i on, b being the alternative taken at i: a match
\* is consumed, otherwise the scan moves one character on
BrandFindNext(s, i, b) ==
  IF b = 0 THEN BrandFindFrom(s, i + 1)
  ELSE <<KNOWN_BRANDS[b]>> \o BrandFindFrom(s, i + Len(KNOWN_BRANDS[b]))

BrandFindFrom(s, i) ==
  IF i > Len(s) THEN <<>> ELSE BrandFindNext(s, i, BrandAt(s, i))

\* brand_pattern.findall(s) for lower-case s: the brands matched, in order
brand_findall(s) == BrandFindFrom(s, 1)

\* the first element of a sequence, or None
FirstOrNone(s) == IF Len(s) = 0 THEN None ELSE s[1]

\* brand_pattern.search(s): the first match, or None
brand_search(s) == FirstOrNone(brand_findall(s))

(***************************************************************************)
(* PhishingDetector._detect_brand_misspelling                              *)
(***************************************************************************)
\* the substitution dict, in its iteration (insertion) order
substitutions ==
  << <<"0","o">>, <<"o","0">>, <<"1","l">>, <<"l","1">>, <<"i","1">>,
     <<"3","e">>, <<"e","3">>, <<"4","a">>, <<"a","4">>, <<"5","s">>,
     <<"s","5">>, <<"7","t">>, <<"t","7">>, <<"8","b">>, <<"b","8">> >>

\* the loop  for old, new in substitutions.items(): normalized = normalized.replace(old, new)
RECURSIVE ApplySubstitutions(_, _)
ApplySubstitutions(s, k) ==
  IF k > Len(substitutions) THEN s
  ELSE ApplySubstitutions(replace(s, substitutions[k][1], substitutions[k][2]), k + 1)

\* sum(1 for a, b in zip(x, y) if a != b)
diff_count(x, y) ==
  Cardinality({i \in 1..Min(Len(x), Len(y)) : x[i] # y[i]})

\* brand[:i] + brand[i+1] + brand[i] + brand[i+2:], for 0-based i
swapped(brand, i) ==
  [k \in 1..Len(brand) |->
     IF k = i + 1 THEN brand[i + 2] ELSE IF k = i + 2 THEN brand[i + 1] ELSE brand[k]]

\* the body of the loop for one brand: TRUE when the loop returns this brand
MisspellingOf(domain_lower, brand) ==
  /\ ~Contains(domain_lower, brand)
  /\ \/ Len(domain_lower) = Len(brand) /\ diff_count(domain_lower, brand) = 1
     \/ /\ Len(domain_lower) - Len(brand) \in {-1, 1}
        /\ Contains(domain_lower, brand) \/ Contains(brand, domain_lower)
     \/ /\ Len(domain_lower) = Len(brand)
        /\ \E i \in 0..(Len(brand) - 2) : domain_lower = swapped(brand, i)
     \/ ApplySubstitutions(domain_lower, 1) = brand

\* KNOWN_BRANDS[b], or None for b = 0
BrandOrNone(b) == IF b = 0 THEN None ELSE KNOWN_BRANDS[b]

\* the first brand of KNOWN_BRANDS the loop returns, or None
_detect_brand_misspelling(domain) ==
  BrandOrNone(FirstTrue([b \in DOMAIN KNOWN_BRANDS |->
                           MisspellingOf(lower(domain), KNOWN_BRANDS[b])]))

(***************************************************************************)
(* PhishingDetector._calculate_entropy, in ten-thousandths of a bit        *)
(***************************************************************************)
_calculate_entropy(s) ==
  IF Len(s) = 0 THEN 0
  ELSE LET ls == lower(s)
           firsts == {i \in DOMAIN ls : \A m \in 1..(i - 1) : ls[m] # ls[i]}
           freq(i) == Cardinality({m \in DOMAIN ls : ls[m] = ls[i]})
           terms == [i \in firsts |-> freq(i) * Log2Table[Len(ls)][freq(i)]]
           RECURSIVE SumOver(_)
           SumOver(S) == IF S = {} THEN 0
                         ELSE LET x == CHOOSE y \in S : TRUE
                              IN  terms[x] + SumOver(S \ {x})
       IN  SumOver(firsts) \div Len(ls)

(***************************************************************************)
(* PhishingDetector._analyze_urls: the checks of one URL, in code order.   *)
(* Each check is [hit, w, reason]: its condition, the amount added to the  *)
(* score (hundredths) and the reason appended.                             *)
(***************************************************************************)
Reason(msg, arg) == [msg |-> msg, arg |-> arg]

IP_ADDRESS_SCORE == 55
HEX_IP_SCORE == 50
SUSPICIOUS_TLD_SCORE == 30
BRAND_SUBDOMAIN_SCORE == 35
BRAND_DOMAIN_TLD_SCORE == 45
BRAND_HYPHEN_SCORE == 35
MISSPELLING_SCORE == 40
LOOKALIKE_SCORE == 20
SUBDOMAIN_DEPTH_SCORE == 25
ENTROPY_SCORE == 20
SHORTENER_SCORE == 25
AT_SYMBOL_SCORE == 45
DOT_COUNT_SCORE == 20
KEYWORD_SCORE == 8
KEYWORD_SCORE_CAP == 25
PROTOCOL_SCORE == 50
PORT_SCORE == 15
FILE_EXTENSION_SCORE == 20
LONG_URL_SCORE == 15
PUNYCODE_SCORE == 30
URL_SUSPICIOUS_THRESHOLD == 25

\* number of characters 'https?://' consumes at the start of s, 0 if no match
SchemeLen(s) ==
  IF startswith(s, <<"h","t","t","p","s",":","/","/">>) THEN 8
  ELSE IF startswith(s, <<"h","t","t","p",":","/","/">>) THEN 7
  ELSE 0

\* \d+\.\d+\.\d+\.\d+ matches at index i of s
RECURSIVE DottedDigitsAt(_, _, _)
DottedDigitsAt(s, i, groups) ==
  LET digits == RunLen(s, DigitChars, i)
  IN  /\ digits >= 1
      /\ \/ groups = 1
         \/ /\ i + digits <= Len(s)
            /\ s[i + digits] = "."
            /\ DottedDigitsAt(s, i + digits + 1, groups - 1)

\* IsIpUrl with the pattern r'https?://\d\.\d\.\d\.\d': one digit per group
IsIpUrl_single_digits(url) ==
  LET i == SchemeLen(url) + 1
  IN  /\ SchemeLen(url) > 0
      /\ Len(url) >= i + 6
      /\ \A k \in 0..6 : IF k % 2 = 0 THEN url[i + k] \in DigitChars ELSE url[i + k] = "."

\* re.match(r'https?://\d+\.\d+\.\d+\.\d+', url)
IsIpUrl(url) == SchemeLen(url) > 0 /\ DottedDigitsAt(url, SchemeLen(url) + 1, 4)

\* re.search(r'https?://0x[0-9a-f]+', url_lower)
IsHexIpUrl(url_lower) ==
  \E i \in DOMAIN url_lower :
     \/ MatchAt(url_lower, <<"h","t","t","p",":","/","/","0","x">>, i) /\ RunLen(url_lower, HexChars, i + 9) >= 1
     \/ MatchAt(url_lower, <<"h","t","t","p","s",":","/","/","0","x">>, i) /\ RunLen(url_lower, HexChars, i + 10) >= 1

\* HasShortener comparing the whole URL with each shortener
HasShortener_whole_url(url_lower) == url_lower \in Range(URL_SHORTENERS)

\* any(shortener in url_lower for shortener in self.URL_SHORTENERS)
HasShortener(url_lower) ==
  \E k \in DOMAIN URL_SHORTENERS : Contains(url_lower, URL_SHORTENERS[k])

\* re.search(r':\d{4,5}/', url)
HasPort(url) ==
  \E i \in DOMAIN url :
     /\ url[i] = ":"
     /\ \E n \in {4, 5} :
          /\ RunLen(url, DigitChars, i + 1) >= n
          /\ i + n + 1 <= Len(url)
          /\ url[i + n + 1] = "/"

\* re.search(r'\.(html?|php|asp|exe|scr|bat|cmd|js|vbs)\?', url_lower)
HasFileExtension(url_lower) ==
  \E k \in DOMAIN file_extensions :
     Contains(url_lower, <<".">> \o file_extensions[k] \o <<"?">>)

keyword_count(url_lower) ==
  Cardinality({k \in DOMAIN suspicious_url_keywords :
                 Contains(url_lower, suspicious_url_keywords[k])})

\* index of the first lookalike pattern found in domain or subdomain, 0 if none
FirstLookalike(domain, subdomain) ==
  FirstTrue([k \in DOMAIN lookalike_patterns |->
               \/ Contains(domain, lookalike_patterns[k])
               \/ Contains(subdomain, lookalike_patterns[k])])

\* extracted.suffix in self.SUSPICIOUS_TLDS
IsSuspiciousTld(suffix) == suffix \in Range(SUSPICIOUS_TLDS)

\* subdomain.split('.') if subdomain else []
subdomain_parts(subdomain) == IF Len(subdomain) > 0 THEN split(subdomain, ".") ELSE <<>>

Check(hit, w, msg, arg) == [hit |-> hit, w |-> w, reason |-> Reason(msg, arg)]

\* the checks, given the values the code computes once for the URL
UrlCheckList(url, url_lower, domain, suffix, subdomain, brand_in_domain, brand_misspell, lookalike, dot_count, kw) ==
  << Check(IsIpUrl(url), IP_ADDRESS_SCORE,
           "URL uses IP address instead of domain name", <<>>),
     Check(IsHexIpUrl(url_lower), HEX_IP_SCORE,
           "URL uses hexadecimal IP encoding (obfuscation)", <<>>),
     Check(HAS_TLDEXTRACT /\ IsSuspiciousTld(suffix), SUSPICIOUS_TLD_SCORE,
           "Suspicious/free TLD: .", suffix),
     Check(HAS_TLDEXTRACT /\ brand_search(subdomain) # None, BRAND_SUBDOMAIN_SCORE,
           "Brand name in subdomain (likely typosquatting)", <<>>),
     Check(HAS_TLDEXTRACT /\ brand_in_domain # None /\ IsSuspiciousTld(suffix),
           BRAND_DOMAIN_TLD_SCORE,
           "Brand in domain with suspicious TLD", brand_in_domain),
     Check(HAS_TLDEXTRACT /\ brand_in_domain # None /\ ~IsSuspiciousTld(suffix)
             /\ Contains(domain, <<"-">>),
           BRAND_HYPHEN_SCORE,
           "Brand with hyphenated domain (suspicious)", brand_in_domain),
     Check(HAS_TLDEXTRACT /\ brand_misspell # None, MISSPELLING_SCORE,
           "Possible misspelling in domain", brand_misspell),
     Check(HAS_TLDEXTRACT /\ lookalike # 0, LOOKALIKE_SCORE,
           "Suspicious lookalike pattern",
           IF lookalike # 0 THEN lookalike_patterns[lookalike] ELSE <<>>),
     Check(HAS_TLDEXTRACT /\ Len(subdomain_parts(subdomain)) > 3, SUBDOMAIN_DEPTH_SCORE,
           "Excessive subdomain depth", str(Len(subdomain_parts(subdomain)))),
     Check(HAS_TLDEXTRACT /\ Len(domain) > 8 /\ _calculate_entropy(domain) > 35000,
           ENTROPY_SCORE,
           "Domain appears randomly generated", <<>>),
     Check(HasShortener(url_lower), SHORTENER_SCORE,
           "URL shortener detected (hides real destination)", <<>>),
     Check(Contains(url, <<"@">>), AT_SYMBOL_SCORE,
           "URL contains @ symbol (URL credential obfuscation)", <<>>),
     Check(dot_count > 5, DOT_COUNT_SCORE,
           "Unusual number of dots in URL", str(dot_count)),
     Check(kw >= 2, Min(KEYWORD_SCORE_CAP, kw * KEYWORD_SCORE),
           "Multiple suspicious keywords in URL", str(kw)),
     Check(startswith(url_lower, <<"d","a","t","a",":">>) \/ startswith(url_lower, <<"j","a","v","a","s","c","r","i","p","t",":">>),
           PROTOCOL_SCORE,
           "Suspicious protocol (data: or javascript:)", <<>>),
     Check(HasPort(url), PORT_SCORE,
           "Non-standard port number in URL", <<>>),
     Check(HasFileExtension(url_lower), FILE_EXTENSION_SCORE,
           "Suspicious file extension in URL", <<>>),
     Check(Len(url) > 200, LONG_URL_SCORE,
           "Unusually long URL", <<>>),
     Check(Contains(url_lower, <<"x","n","-","-">>), PUNYCODE_SCORE,
           "Punycode domain detected (possible homograph attack)", <<>>) >>

\* the checks of a URL whose host tldextract split into extracted
ExtractedUrlChecks(url, extracted) ==
  UrlCheckList(url, lower(url), extracted.domain, extracted.suffix, extracted.subdomain,
               brand_search(extracted.domain),
               _detect_brand_misspelling(extracted.domain),
               FirstLookalike(extracted.domain, extracted.subdomain),
               count(url, <<".">>),
               keyword_count(lower(url)))

UrlChecks(url) == ExtractedUrlChecks(url, tldextract(url))

\* score += over the checks that fired
HitScore(hits) == SumSeq([i \in DOMAIN hits |-> hits[i].w])

\* the URLAnalysisResult appended for a URL whose checks hits fired
URLAnalysisResult(url, hits) ==
  [url |-> url,
   is_suspicious |-> HitScore(hits) >= URL_SUSPICIOUS_THRESHOLD,
   score |-> Min(HitScore(hits), 100),
   reasons |-> [i \in DOMAIN hits |-> hits[i].reason]]

AnalyzeUrl(url) == URLAnalysisResult(url, SelectSeq(UrlChecks(url), LAMBDA c : c.hit))

(***************************************************************************)
(* The vocabulary: the tokens message texts are built from                 *)
(***************************************************************************)
WordTokens ==
  { <<" "," ">>, <<"H","i">>, <<"t","a","p"," ","h","e","r","e">>, <<"v","e","r","i","f","y"," ","y","o","u","r"," ","a","c","c","o","u","n","t">>, <<"e","n","t","e","r"," ","y","o","u","r"," ","p","a","s","s","w","o","r","d">>,
    <<"p","a","y","p","a","l">>, <<"a","m","a","z","o","n">>, <<"t","h","a","n","k"," ","y","o","u"," ","f","o","r">>, <<"o","r","d","e","r"," ","c","o","n","f","i","r","m","e","d">>, <<"t","r","a","c","k","i","n","g"," ","n","u","m","b","e","r">>,
    <<"i","f"," ","t","h","i","s"," ","w","a","s"," ","y","o","u">> }

UrlTokens ==
  { <<"h","t","t","p",":","/","/","1","9","2",".","1","6","8",".","1",".","1","/","l","o","g","i","n">>, <<"h","t","t","p","s",":","/","/","b","i","t",".","l","y","/","x">>,
    <<"h","t","t","p",":","/","/","p","a","y","p","a","1","-","v","e","r","i","f","y",".","t","k","/","l","o","g","i","n">>, <<"h","t","t","p","s",":","/","/","w","w","w",".","p","a","y","p","a","l",".","c","o","m">>,
    <<"h","t","t","p","s",":","/","/","w","w","w",".","m","i","c","r","o","s","o","f","t",".","c","o","m">> }

\* the tokens texts are composed of freely
Vocabulary ==
  { <<"t","a","p"," ","h","e","r","e">>, <<"v","e","r","i","f","y"," ","y","o","u","r"," ","a","c","c","o","u","n","t">>, <<"e","n","t","e","r"," ","y","o","u","r"," ","p","a","s","s","w","o","r","d">>, <<"p","a","y","p","a","l">>,
    <<"h","t","t","p",":","/","/","1","9","2",".","1","6","8",".","1",".","1","/","l","o","g","i","n">>, <<"h","t","t","p","s",":","/","/","b","i","t",".","l","y","/","x">>, <<"h","t","t","p",":","/","/","p","a","y","p","a","1","-","v","e","r","i","f","y",".","t","k","/","l","o","g","i","n">> }

\* the tokens of "Win $1,000,000 now, click here!"
ScenarioText == << <<"W","i","n">>, <<"$","1",",","0","0","0",",","0","0","0">>, <<"n","o","w",",">>, <<"c","l","i","c","k"," ","h","e","r","e","!">> >>

\* an IPv4 URL whose scheme is written in capitals
UpperIpUrl == <<"H","T","T","P",":","/","/","1","0",".","0",".","0",".","1","/","x">>

AllTokens == WordTokens \cup UrlTokens \cup Range(ScenarioText) \cup {UpperIpUrl}

(***************************************************************************)
(* The compiled pattern lists, tabulated on the tokens: the value of       *)
(* sum(len(p.findall(token)) for p in patterns) or of re.search per        *)
(* pattern.  One pattern matches across the blank that joins two tokens of *)
(* the vocabulary (login_verify_match below); for every other pattern the  *)
(* value on a text is the sum (or union) over its tokens.                  *)
(***************************************************************************)
\* URGENCY_PATTERNS: r'\b(verify (your )?(account|identity|password|email|phone))\b'
urgency_count(t) == IF t = <<"v","e","r","i","f","y"," ","y","o","u","r"," ","a","c","c","o","u","n","t">> THEN 1 ELSE 0

\* CREDENTIAL_PATTERNS: r'\b(enter (your )?(password|pin|ssn|...))\b'
credential_count(t) == IF t = <<"e","n","t","e","r"," ","y","o","u","r"," ","p","a","s","s","w","o","r","d">> THEN 1 ELSE 0

\* CREDENTIAL_PATTERNS: r'\b(login (to )?(verify|confirm|secure|protect))\b'
\* (IGNORECASE) matches "login verify" where a token that ends in the word
\* login is followed by a token that starts with the word verify
login_end(t) == endswith(lower(t), <<"/","l","o","g","i","n">>)

verify_start(t) == startswith(lower(t), <<"v","e","r","i","f","y"," ">>)

\* THREAT_PATTERNS: no token matches
threat_count(t) == 0

\* FINANCIAL_PATTERNS: r'[$...]\s?\d+[,\d]*(\.\d{2})?'
financial_count(t) == IF t = <<"$","1",",","0","0","0",",","0","0","0">> THEN 1 ELSE 0

\* SOCIAL_ENGINEERING_PATTERNS: no token matches
social_count(t) == 0

\* ACTION_PATTERNS: r'\b(click (here|...))\b', r'\b(tap (here|the link|below|to))\b'
action_count(t) == IF t \in {<<"t","a","p"," ","h","e","r","e">>, <<"c","l","i","c","k"," ","h","e","r","e","!">>} THEN 1 ELSE 0

\* CRYPTO_SCAM_PATTERNS: no token matches
crypto_count(t) == 0

\* IMPERSONATION_INDICATORS: no token matches
impersonation_count(t) == 0

\* safe_patterns (1-based index): 1 is r'\b(you requested|if this was you|if you did this)\b',
\* 4 is r'\b(order confirmed|thanks for your order|order #?\d+)\b',
\* 6 is r'\b(scheduled to be delivered|on its way|tracking number)\b',
\* 11 is r'\b(thanks for (using|your)|thank you for)\b'
safe_matches(t) ==
  CASE t = <<"i","f"," ","t","h","i","s"," ","w","a","s"," ","y","o","u">> -> {1}
    [] t = <<"o","r","d","e","r"," ","c","o","n","f","i","r","m","e","d">> -> {4}
    [] t = <<"t","r","a","c","k","i","n","g"," ","n","u","m","b","e","r">> -> {6}
    [] t = <<"t","h","a","n","k"," ","y","o","u"," ","f","o","r">> -> {11}
    [] OTHER -> {}

\* official_domain_patterns (1-based index): 1 is r'\b(at |...)?(wellsfargo|chase|paypal|...)\.com\b'
official_reference_matches(t) ==
  IF t \in {<<"h","t","t","p","s",":","/","/","w","w","w",".","p","a","y","p","a","l",".","c","o","m">>, <<"h","t","t","p","s",":","/","/","w","w","w",".","m","i","c","r","o","s","o","f","t",".","c","o","m">>} THEN {1} ELSE {}

\* suspicious_tld_pattern: r'[a-z0-9][-a-z0-9]*\.(tk|ml|...)\b'
suspicious_tld_match(t) == t = <<"h","t","t","p",":","/","/","p","a","y","p","a","1","-","v","e","r","i","f","y",".","t","k","/","l","o","g","i","n">>

\* brand_in_url_pattern: r'(paypal|...)[-_][a-z0-9]+\.(com|net|...)\b'
brand_in_url_match(t) == FALSE

\* official_domain_pattern: r'\b(account\.|www\.|mail\.|support\.)?(paypal|...)\.(com|org|net|co)\b'
official_domain_match(t) == t \in {<<"h","t","t","p","s",":","/","/","w","w","w",".","p","a","y","p","a","l",".","c","o","m">>, <<"h","t","t","p","s",":","/","/","w","w","w",".","m","i","c","r","o","s","o","f","t",".","c","o","m">>}

\* r'(secur|verif|alert|withdraw|cancel)' and r'\.(io|com|net|org)\b', the two
\* ends of the has_security_url pattern
security_word_match(t) == t \in {<<"v","e","r","i","f","y"," ","y","o","u","r"," ","a","c","c","o","u","n","t">>, <<"h","t","t","p",":","/","/","p","a","y","p","a","1","-","v","e","r","i","f","y",".","t","k","/","l","o","g","i","n">>}

\* the whole has_security_url pattern within one token: no token matches
security_url_match(t) == FALSE

dot_tld_match(t) == t \in {<<"h","t","t","p","s",":","/","/","w","w","w",".","p","a","y","p","a","l",".","c","o","m">>, <<"h","t","t","p","s",":","/","/","w","w","w",".","m","i","c","r","o","s","o","f","t",".","c","o","m">>}

\* obfuscated_url_patterns (1-based index): no token matches
obfuscation_matches(t) == {}

\* r'https?://[^\s]*\.(tk|ml|...)\b' of the safe-context guard
suspicious_tld_in_url_match(t) == t = <<"h","t","t","p",":","/","/","p","a","y","p","a","1","-","v","e","r","i","f","y",".","t","k","/","l","o","g","i","n">>

\* sms_patterns[:2] (1-based index): 2 is r'\b(click link|tap here)\b'
sms_matches(t) == IF t = <<"t","a","p"," ","h","e","r","e">> THEN {2} ELSE {}

\* url_pattern (https?:// followed by characters other than blanks, angle
\* brackets, double quote, braces, bar, backslash, caret, backquote and square
\* brackets; IGNORECASE) matches the whole token.  The backquote is not a
\* character of any token.
IsUrlToken(t) ==
  /\ SchemeLen(lower(t)) > 0
  /\ Len(t) > SchemeLen(lower(t))
  /\ Range(t) \cap (SpaceChars \cup {"<", ">", "\"", "{", "}", "|", "\\", "^", "[", "]"}) = {}

\* the keys of unicode_homoglyphs, by code point
unicode_homoglyphs ==
  { "U+0430", "U+0435", "U+043E", "U+0440", "U+0441", "U+0443", "U+0445",
    "U+0456", "U+0455", "U+0251", "U+03B5", "U+03BF", "U+03B9", "U+03BA",
    "U+03C1", "U+03C4", "U+03BD", "U+03C9", "U+0261", "U+04BB", "U+0501",
    "U+044C", "U+043F" }

Features(t) ==
  [ words         |-> WordCount(t),
    upper         |-> CountChars(t, Range(UpperChars)),
    punct         |-> CountChars(t, {"!", "?"}),
    urls          |-> IF IsUrlToken(t) THEN <<t>> ELSE <<>>,
    http_start    |-> startswith(t, <<"h","t","t","p",":","/","/">>) \/ startswith(t, <<"h","t","t","p","s",":","/","/">>),
    brands        |-> brand_findall(lower(t)),
    phrases       |-> {k \in DOMAIN suspicious_phrases :
                         Contains(lower(t), suspicious_phrases[k])},
    crypto_brand  |-> \E k \in DOMAIN crypto_brands : Contains(lower(t), crypto_brands[k]),
    homoglyph     |-> Range(t) \cap unicode_homoglyphs # {},
    urgency       |-> urgency_count(t),
    credential    |-> credential_count(t),
    login_end     |-> login_end(t),
    verify_start  |-> verify_start(t),
    threat        |-> threat_count(t),
    financial     |-> financial_count(t),
    social        |-> social_count(t),
    action        |-> action_count(t),
    crypto        |-> crypto_count(t),
    impersonation |-> impersonation_count(t),
    safe          |-> safe_matches(t),
    official_ref  |-> official_reference_matches(t),
    susp_tld      |-> suspicious_tld_match(t),
    brand_in_url  |-> brand_in_url_match(t),
    official_dom  |-> official_domain_match(t),
    security_url  |-> security_url_match(t),
    security_word |-> security_word_match(t),
    dot_tld       |-> dot_tld_match(t),
    obfuscation   |-> obfuscation_matches(t),
    susp_tld_url  |-> suspicious_tld_in_url_match(t),
    sms           |-> sms_matches(t) ]

\* the tables below are evaluated once
TokenInfo == [t \in AllTokens |-> Features(t)]

AllUrls == {t \in AllTokens : IsUrlToken(t)}

UrlInfo == [u \in AllUrls |-> AnalyzeUrl(u)]

ExtractInfo == [u \in AllUrls |-> tldextract(u)]

ShortenerInfo == [u \in AllUrls |-> HasShortener(lower(u))]

MisspellInfo == [u \in AllUrls |-> _detect_brand_misspelling(tldextract(u).domain)]

MentionedBrands == UNION {Range(TokenInfo[t].brands) : t \in AllTokens}

\* token_lower.count(brand)
BrandCountInfo == [t \in AllTokens |-> [b \in MentionedBrands |-> count(lower(t), b)]]

(***************************************************************************)
(* Texts                                                                   *)
(***************************************************************************)
\* len(text) for a text of tokens joined by single blanks
TextLen(text) ==
  IF Len(text) = 0 THEN 0
  ELSE SumSeq([i \in DOMAIN text |-> Len(text[i])]) + Len(text) - 1

\* text.strip(): leading and trailing blank tokens, and the joining blanks
\* next to them, fall away
RECURSIVE lstrip(_)
lstrip(text) ==
  IF Len(text) > 0 /\ Range(Head(text)) \subseteq SpaceChars THEN lstrip(Tail(text)) ELSE text

strip(text) == Reverse(lstrip(Reverse(lstrip(text))))

\* what the patterns find in each token of the text
InfoOf(text) == [i \in DOMAIN text |-> TokenInfo[text[i]]]

\* sum of a per-token count over the text
TotalOf(info, field(_)) == SumSeq([i \in DOMAIN info |-> field(info[i])])

\* sum(len(p.findall(text)) for p in credential_patterns)
credential_total(info) ==
  TotalOf(info, LAMBDA f : f.credential)
    + Cardinality({i \in 1..(Len(info) - 1) : info[i].login_end /\ info[i + 1].verify_start})

\* union of a per-token set over the text
UnionOf(info, field(_)) == UNION {field(info[i]) : i \in DOMAIN info}

\* some token of the text has the per-token flag
AnyOf(info, field(_)) == \E i \in DOMAIN info : field(info[i])

\* PhishingDetector.extract_urls: url_pattern.findall(text)
extract_urls(text) == Flatten([i \in DOMAIN text |-> TokenInfo[text[i]].urls])

(***************************************************************************)
(* PhishingDetector._rule_based_detection                                  *)
(***************************************************************************)
\* r'(secur|verif|alert|withdraw|cancel).*\.(io|com|net|org)\b' found in the
\* text: both ends in one token, or the first end in an earlier token
has_security_url(info) ==
  \/ \E i \in DOMAIN info : info[i].security_url
  \/ \E i, j \in DOMAIN info : i < j /\ info[i].security_word /\ info[j].dot_tld

\* min(safe_context_score, 0.5)
safe_context_score(info) ==
  Min(15 * Cardinality(UnionOf(info, LAMBDA f : f.safe))
        + 20 * Cardinality(UnionOf(info, LAMBDA f : f.official_ref)),
      50)

\* brand_pattern.search(text): the first brand mentioned, or None
brand_match(info) == FirstOrNone(Flatten([i \in DOMAIN info |-> info[i].brands]))

has_suspicious_domain(info) ==
  AnyOf(info, LAMBDA f : f.susp_tld) \/ AnyOf(info, LAMBDA f : f.brand_in_url)

\* the checks in code order, for what the patterns find in the tokens (info)
\* and len(text) (length)
RuleChecks(info, length) ==
  LET urgency == TotalOf(info, LAMBDA f : f.urgency)
      credential == credential_total(info)
      threat == TotalOf(info, LAMBDA f : f.threat)
      financial == TotalOf(info, LAMBDA f : f.financial)
      social == TotalOf(info, LAMBDA f : f.social)
      action == TotalOf(info, LAMBDA f : f.action)
      crypto == TotalOf(info, LAMBDA f : f.crypto)
      impersonation == TotalOf(info, LAMBDA f : f.impersonation)
      phrase_count == Cardinality(UnionOf(info, LAMBDA f : f.phrases))
      has_official_domain == AnyOf(info, LAMBDA f : f.official_dom)
      obfuscation_count == Cardinality(UnionOf(info, LAMBDA f : f.obfuscation))
      \* the indicator text is built only when the check fires
      Rule(hit, w, ind) == [hit |-> hit, w |-> w, ind |-> IF hit THEN ind ELSE None]
  IN  << Rule(urgency > 0, Min(30, urgency * 12),
              <<"U","r","g","e","n","c","y","/","p","r","e","s","s","u","r","e"," ","t","a","c","t","i","c","s"," ","d","e","t","e","c","t","e","d"," ","(">> \o str(urgency) \o <<" ","i","n","s","t","a","n","c","e","s",")">>),
         Rule(credential > 0, Min(40, credential * 18),
              <<"C","r","e","d","e","n","t","i","a","l","/","p","a","s","s","w","o","r","d"," ","r","e","q","u","e","s","t"," ","d","e","t","e","c","t","e","d"," ","(">> \o str(credential) \o <<" ","i","n","s","t","a","n","c","e","s",")">>),
         Rule(threat > 0, Min(30, threat * 12),
              <<"T","h","r","e","a","t","e","n","i","n","g"," ","l","a","n","g","u","a","g","e"," ","d","e","t","e","c","t","e","d"," ","(">> \o str(threat) \o <<" ","i","n","s","t","a","n","c","e","s",")">>),
         Rule(financial > 0, Min(25, financial * 10),
              <<"F","i","n","a","n","c","i","a","l","/","p","a","y","m","e","n","t"," ","k","e","y","w","o","r","d","s"," ","d","e","t","e","c","t","e","d"," ","(">> \o str(financial) \o <<" ","i","n","s","t","a","n","c","e","s",")">>),
         Rule(social > 0, Min(25, social * 10),
              <<"S","o","c","i","a","l"," ","e","n","g","i","n","e","e","r","i","n","g"," ","t","a","c","t","i","c","s"," ","d","e","t","e","c","t","e","d"," ","(">> \o str(social) \o <<" ","i","n","s","t","a","n","c","e","s",")">>),
         Rule(action > 0, Min(20, action * 10),
              <<"S","u","s","p","i","c","i","o","u","s"," ","a","c","t","i","o","n"," ","r","e","q","u","e","s","t","s"," ","d","e","t","e","c","t","e","d"," ","(">> \o str(action) \o <<" ","i","n","s","t","a","n","c","e","s",")">>),
         Rule(crypto > 0, Min(35, crypto * 15),
              <<"C","r","y","p","t","o","/","N","F","T"," ","s","c","a","m"," ","i","n","d","i","c","a","t","o","r","s"," ","d","e","t","e","c","t","e","d"," ","(">> \o str(crypto) \o <<" ","i","n","s","t","a","n","c","e","s",")">>),
         Rule(impersonation > 0, Min(20, impersonation * 8),
              <<"I","m","p","e","r","s","o","n","a","t","i","o","n"," ","i","n","d","i","c","a","t","o","r","s"," ","d","e","t","e","c","t","e","d"," ","(">> \o str(impersonation) \o <<" ","i","n","s","t","a","n","c","e","s",")">>),
         Rule(phrase_count > 0, Min(35, phrase_count * 10),
              <<"K","n","o","w","n"," ","p","h","i","s","h","i","n","g"," ","p","h","r","a","s","e","s"," ","d","e","t","e","c","t","e","d"," ","(">> \o str(phrase_count) \o <<")">>),
         Rule(brand_match(info) # None /\ has_suspicious_domain(info) /\ ~has_official_domain, 30,
              <<"B","r","a","n","d"," ","'">> \o brand_match(info) \o <<"'"," ","w","i","t","h"," ","s","u","s","p","i","c","i","o","u","s"," ","U","R","L","/","d","o","m","a","i","n">>),
         Rule(brand_match(info) = None /\ has_suspicious_domain(info) /\ ~has_official_domain, 15,
              <<"S","u","s","p","i","c","i","o","u","s"," ","d","o","m","a","i","n"," ","T","L","D"," ","d","e","t","e","c","t","e","d">>),
         Rule(AnyOf(info, LAMBDA f : f.crypto_brand) /\ has_security_url(info), 20,
              <<"C","r","y","p","t","o"," ","b","r","a","n","d"," ","w","i","t","h"," ","s","e","c","u","r","i","t","y","-","t","h","e","m","e","d"," ","U","R","L">>),
         Rule(obfuscation_count > 0, Min(20, obfuscation_count * 10),
              <<"U","R","L"," ","o","b","f","u","s","c","a","t","i","o","n"," ","d","e","t","e","c","t","e","d"," ","(">> \o str(obfuscation_count) \o <<" ","t","e","c","h","n","i","q","u","e","s",")">>),
         Rule(AnyOf(info, LAMBDA f : f.homoglyph), 25,
              <<"L","o","o","k","a","l","i","k","e","/","h","o","m","o","g","l","y","p","h"," ","c","h","a","r","a","c","t","e","r","s"," ","d","e","t","e","c","t","e","d"," ","(","p","o","s","s","i","b","l","e"," ","s","p","o","o","f","i","n","g",")">>),
         Rule(length > 50 /\ 10 * TotalOf(info, LAMBDA f : f.upper) > 3 * length, 10,
              <<"E","x","c","e","s","s","i","v","e"," ","c","a","p","i","t","a","l","i","z","a","t","i","o","n"," ","(","a","t","t","e","n","t","i","o","n","-","g","r","a","b","b","i","n","g"," ","t","a","c","t","i","c",")">>),
         Rule(length > 50 /\ TotalOf(info, LAMBDA f : f.punct) > 5, 8,
              <<"E","x","c","e","s","s","i","v","e"," ","e","x","c","l","a","m","a","t","i","o","n","/","q","u","e","s","t","i","o","n"," ","m","a","r","k","s">>) >>

\* the safe-context reduction applied whatever the URLs of the text are
ReducedScore_url_ignored(score, safe, suspicious_tld_in_url) ==
  IF safe > 0 /\ score > 0 THEN Max(0, score - safe) ELSE score

\* the score after the safe-context reduction
ReducedScore(score, safe, suspicious_tld_in_url) ==
  IF safe > 0 /\ score > 0 /\ ~suspicious_tld_in_url THEN Max(0, score - safe) ELSE score

\* score and indicators before the return statement, hits being the checks
\* that fired
RuleOutcome(hits, info) ==
  [score |-> ReducedScore(HitScore(hits), safe_context_score(info),
                          AnyOf(info, LAMBDA f : f.susp_tld_url)),
   indicators |-> [i \in DOMAIN hits |-> hits[i].ind]]

RulesFired(info, length) == RuleOutcome(SelectSeq(RuleChecks(info, length), LAMBDA c : c.hit), info)

\* return min(score, 1.0), indicators
Returned(outcome) == [score |-> Min(outcome.score, 100), indicators |-> outcome.indicators]

\* score at the statement that applies the safe-context reduction: the sum of the
\* contributions of the checks that fired
score_before_reduction(text) ==
  HitScore(SelectSeq(RuleChecks(InfoOf(text), TextLen(text)), LAMBDA c : c.hit))

\* _rule_based_detection without the final min(score, 1.0)
_rule_based_detection_unclamped(text) == RulesFired(InfoOf(text), TextLen(text))

\* (rule_score, indicators)
_rule_based_detection(text) == Returned(RulesFired(InfoOf(text), TextLen(text)))

(***************************************************************************)
(* Iteration order of a Python set of str.  It follows the hashes of the   *)
(* elements, which are salted by a per-process seed.  Two of the orders a  *)
(* process can have are kept: first-insertion order under seed 0, the      *)
(* opposite order under any other seed.                                    *)
(***************************************************************************)
RECURSIVE Dedupe(_)
Dedupe(s) ==
  IF Len(s) = 0 THEN <<>>
  ELSE LET front == Dedupe(SubSeq(s, 1, Len(s) - 1))
       IN  IF s[Len(s)] \in Range(front) THEN front ELSE Append(front, s[Len(s)])

SetIteration(s, seed) == IF seed = 0 THEN Dedupe(s) ELSE Reverse(Dedupe(s))

(***************************************************************************)
(* PhishingDetector._detect_brand_impersonation                            *)
(***************************************************************************)
\* the official_domains dict as (brand, domains) pairs
official_domains ==
  << << <<"p","a","y","p","a","l">>, << <<"p","a","y","p","a","l",".","c","o","m">>, <<"p","a","y","p","a","l",".","m","e">> >> >>,
     << <<"a","m","a","z","o","n">>, << <<"a","m","a","z","o","n",".","c","o","m">>, <<"a","m","a","z","o","n",".","c","o",".","u","k">>, <<"a","m","a","z","o","n",".","d","e">>, <<"a","m","a","z","o","n",".","f","r">>,
                      <<"a","m","a","z","o","n",".","c","a">>, <<"a","m","a","z","o","n",".","i","n">>, <<"a","w","s",".","a","m","a","z","o","n",".","c","o","m">> >> >>,
     << <<"n","e","t","f","l","i","x">>, << <<"n","e","t","f","l","i","x",".","c","o","m">> >> >>,
     << <<"a","p","p","l","e">>, << <<"a","p","p","l","e",".","c","o","m">>, <<"i","c","l","o","u","d",".","c","o","m">> >> >>,
     << <<"m","i","c","r","o","s","o","f","t">>, << <<"m","i","c","r","o","s","o","f","t",".","c","o","m">>, <<"l","i","v","e",".","c","o","m">>, <<"o","u","t","l","o","o","k",".","c","o","m">>, <<"o","f","f","i","c","e",".","c","o","m">>,
                         <<"o","f","f","i","c","e","3","6","5",".","c","o","m">>, <<"a","z","u","r","e",".","c","o","m">> >> >>,
     << <<"g","o","o","g","l","e">>, << <<"g","o","o","g","l","e",".","c","o","m">>, <<"g","m","a","i","l",".","c","o","m">>, <<"y","o","u","t","u","b","e",".","c","o","m">>,
                      <<"a","c","c","o","u","n","t","s",".","g","o","o","g","l","e",".","c","o","m">> >> >>,
     << <<"f","a","c","e","b","o","o","k">>, << <<"f","a","c","e","b","o","o","k",".","c","o","m">>, <<"f","b",".","c","o","m">>, <<"m","e","t","a",".","c","o","m">> >> >>,
     << <<"i","n","s","t","a","g","r","a","m">>, << <<"i","n","s","t","a","g","r","a","m",".","c","o","m">> >> >>,
     << <<"w","h","a","t","s","a","p","p">>, << <<"w","h","a","t","s","a","p","p",".","c","o","m">>, <<"w","a",".","m","e">> >> >>,
     << <<"c","h","a","s","e">>, << <<"c","h","a","s","e",".","c","o","m">> >> >>,
     << <<"w","e","l","l","s","f","a","r","g","o">>, << <<"w","e","l","l","s","f","a","r","g","o",".","c","o","m">> >> >>,
     << <<"b","a","n","k","o","f","a","m","e","r","i","c","a">>, << <<"b","a","n","k","o","f","a","m","e","r","i","c","a",".","c","o","m">>, <<"b","o","f","a",".","c","o","m">> >> >>,
     << <<"u","s","p","s">>, << <<"u","s","p","s",".","c","o","m">> >> >>,
     << <<"f","e","d","e","x">>, << <<"f","e","d","e","x",".","c","o","m">> >> >>,
     << <<"u","p","s">>, << <<"u","p","s",".","c","o","m">> >> >>,
     << <<"d","h","l">>, << <<"d","h","l",".","c","o","m">> >> >>,
     << <<"l","i","n","k","e","d","i","n">>, << <<"l","i","n","k","e","d","i","n",".","c","o","m">> >> >>,
     << <<"d","r","o","p","b","o","x">>, << <<"d","r","o","p","b","o","x",".","c","o","m">> >> >>,
     << <<"c","o","i","n","b","a","s","e">>, << <<"c","o","i","n","b","a","s","e",".","c","o","m">> >> >>,
     << <<"b","i","n","a","n","c","e">>, << <<"b","i","n","a","n","c","e",".","c","o","m">>, <<"b","i","n","a","n","c","e",".","u","s">> >> >> >>

\* official_domains.get(brand, [f"{brand}.com"])
brand_domains(brand) ==
  IF \E k \in DOMAIN official_domains : official_domains[k][1] = brand
  THEN official_domains[CHOOSE k \in DOMAIN official_domains :
                          official_domains[k][1] = brand][2]
  ELSE << brand \o <<".","c","o","m">> >>

\* the impersonation_phrases built from the brand
impersonation_phrases(brand) ==
  << brand \o <<" ","t","e","a","m">>, brand \o <<" ","s","u","p","p","o","r","t">>, brand \o <<" ","s","e","c","u","r","i","t","y">>,
     brand \o <<" ","a","c","c","o","u","n","t">>, brand \o <<" ","s","e","r","v","i","c","e">>, <<"f","r","o","m"," ">> \o brand,
     brand \o <<" ","c","u","s","t","o","m","e","r">>, brand \o <<" ","v","e","r","i","f","i","c","a","t","i","o","n">>, brand \o <<" ","n","o","t","i","f","i","c","a","t","i","o","n">> >>

\* matches.count(b)
CountOf(matches, b) == Cardinality({i \in DOMAIN matches : matches[i] = b})

\* max(order, key=matches.count): the first element of order among those
\* with the greatest count
FirstMostCounted(order, matches) ==
  order[CHOOSE i \in DOMAIN order :
          /\ \A m \in DOMAIN order : CountOf(matches, order[m]) <= CountOf(matches, order[i])
          /\ \A m \in 1..(i - 1) : CountOf(matches, order[m]) < CountOf(matches, order[i])]

\* max(set(matches), key=matches.count), the set being iterated in its order
MostCommon(matches, seed) == FirstMostCounted(SetIteration(matches, seed), matches)

\* official = any(full_domain == d or full_domain.endswith('.' + d) for d in domains)
is_official(full_domain, domains) ==
  \E k \in DOMAIN domains :
     \/ full_domain = domains[k]
     \/ endswith(full_domain, <<".">> \o domains[k])

\* similarity after a URL that is not official: the brand in the subdomain
\* only, then the misspelling of the brand
UrlSimilarity(extracted, misspelled, brand, base) ==
  LET sub == IF Contains(extracted.subdomain, brand) /\ ~Contains(extracted.domain, brand)
             THEN Max(base, 90) ELSE base
  IN  IF misspelled = brand THEN Max(sub, 95) ELSE sub

\* the loop body with a base similarity of 0.6 for a URL that is not official
UrlStep_base_sixty(extracted, misspelled, brand, acc) ==
  IF is_official(extracted.domain \o <<".">> \o extracted.suffix, brand_domains(brand))
  THEN acc
  ELSE [is_impersonation |-> TRUE,
        similarity |-> UrlSimilarity(extracted, misspelled, brand, Max(acc.similarity, 60))]

\* the effect of the loop body for one URL on (is_impersonation, similarity)
UrlStep(extracted, misspelled, brand, acc) ==
  IF is_official(extracted.domain \o <<".">> \o extracted.suffix, brand_domains(brand))
  THEN acc
  ELSE [is_impersonation |-> TRUE,
        similarity |-> UrlSimilarity(extracted, misspelled, brand, Max(acc.similarity, 70))]

\* the loop over the URLs
RECURSIVE UrlImpersonation(_, _, _)
UrlImpersonation(urls, brand, acc) ==
  IF Len(urls) = 0 \/ ~HAS_TLDEXTRACT THEN acc
  ELSE UrlImpersonation(Tail(urls), brand,
                        UrlStep(ExtractInfo[Head(urls)], MisspellInfo[Head(urls)], brand, acc))

BrandImpersonation(detected, brand, similarity_score) ==
  [detected |-> detected, brand |-> brand, similarity_score |-> similarity_score]

\* is_impersonation = True; similarity = max(similarity, least), when hit
RaisedTo(hit, least, acc) ==
  IF hit THEN [is_impersonation |-> TRUE, similarity |-> Max(acc.similarity, least)] ELSE acc

\* sum(1 for p in impersonation_phrases if p in text_lower)
phrase_matches(text_lower, phrases) ==
  Cardinality({k \in DOMAIN phrases : Contains(text_lower, phrases[k])})

\* text_lower.count(brand), text being the tokens of combined
brand_count(combined, brand) ==
  SumSeq([i \in DOMAIN combined |-> BrandCountInfo[combined[i]][brand]])

\* the BrandImpersonation returned for the (is_impersonation, similarity) reached
ImpersonationResult(brand, final) ==
  BrandImpersonation(final.is_impersonation,
                     IF final.is_impersonation THEN brand ELSE None,
                     Min(final.similarity, 100))

\* the checks for the most mentioned brand, in code order: the mention count,
\* the URLs, the impersonation phrases, the credential request
BrandChecks(text, urls, combined, brand, mentions) ==
  ImpersonationResult(brand,
    RaisedTo(Len(urls) = 0 /\ mentions >= 1 /\ credential_total(InfoOf(text)) > 0, 75,
      RaisedTo(Len(urls) = 0 /\ mentions >= 1
                 /\ phrase_matches(lower(join(combined, <<" ">>)),
                                   impersonation_phrases(brand)) >= 2,
               60,
        UrlImpersonation(urls, brand,
                         [is_impersonation |-> FALSE,
                          similarity |-> IF mentions >= 2 THEN 20 ELSE 0]))))

MostMentioned(text, urls, combined, brand) ==
  BrandChecks(text, urls, combined, brand, brand_count(combined, brand))

\* matches are the brands found in combined
BrandsMatched(text, urls, combined, matches, seed) ==
  IF Len(matches) = 0 THEN BrandImpersonation(FALSE, None, 0)
  ELSE MostMentioned(text, urls, combined, MostCommon(matches, seed))

\* brand_pattern.findall(text_lower), text being the tokens of combined
brand_matches(combined) ==
  Flatten([i \in DOMAIN combined |-> TokenInfo[combined[i]].brands])

\* text_combined is the text with the URLs appended
_detect_brand_impersonation(text, urls, seed) ==
  BrandsMatched(text, urls, text \o urls, brand_matches(text \o urls), seed)

(***************************************************************************)
(* Collaborators.  A model handle is [kind, label, score]: kind "none" is  *)
(* the handle None, "raises" a loaded model whose call raises, "returns" a *)
(* loaded model that answers with a label and a probability (hundredths).  *)
(***************************************************************************)
Model(kind, label, score) == [kind |-> kind, label |-> label, score |-> score]

NoModel == Model("none", <<>>, 0)

NEUTRAL == 50

\* the outcome of a detection method: the score it returns, the calls it made
\* to the model, and whether an exception left it
Outcome(value, calls, escaped) == [value |-> value, calls |-> calls, escaped |-> escaped]

\* _ml_detection without the try/except around the call
_ml_detection_uncaught(model) ==
  IF model.kind = "none" THEN Outcome(NEUTRAL, <<>>, FALSE)
  ELSE IF model.kind = "raises" THEN Outcome(NEUTRAL, <<"ml_model.predict_proba">>, TRUE)
  ELSE Outcome(model.score, <<"ml_model.predict_proba">>, FALSE)

\* PhishingDetector._ml_detection: float(probability[1]); 0.5 without a model,
\* and 0.5 from the except clause when the call raises
_ml_detection(model) ==
  IF model.kind = "none" THEN Outcome(NEUTRAL, <<>>, FALSE)
  ELSE IF model.kind = "raises" THEN Outcome(NEUTRAL, <<"ml_model.predict_proba">>, FALSE)
  ELSE Outcome(model.score, <<"ml_model.predict_proba">>, FALSE)

\* PhishingDetector._transformer_detection: the score of a result whose
\* lower-cased label is one of the phishing labels, 1.0 - score otherwise
phishing_labels == { <<"p","h","i","s","h","i","n","g">>, <<"s","p","a","m">>, <<"1">>, <<"p","o","s","i","t","i","v","e">> }

_transformer_detection(model) ==
  IF model.kind = "none" THEN Outcome(NEUTRAL, <<>>, FALSE)
  ELSE IF model.kind = "raises" THEN Outcome(NEUTRAL, <<"transformer_model">>, FALSE)
  ELSE IF lower(model.label) \in phishing_labels
       THEN Outcome(model.score, <<"transformer_model">>, FALSE)
  ELSE Outcome(100 - model.score, <<"transformer_model">>, FALSE)

(***************************************************************************)
(* PhishingDetector._ensemble_score, in millionths                         *)
(***************************************************************************)
Weights(ml, rule, url, brand, transformer) ==
  [ml |-> ml, rule |-> rule, url |-> url, brand |-> brand, transformer |-> transformer]

ml_available(model, ml_score) == model.kind # "none" /\ ml_score # NEUTRAL

transformer_available(model, transformer_score) ==
  model.kind # "none" /\ transformer_score # NEUTRAL

\* weight selection whose URL-dominated rule-only branch keeps the brand weight
\* of the no-URL branch
SelectWeights_brand_kept(mlAvail, trAvail, has_urls, rule_score, url_score) ==
  IF mlAvail /\ trAvail
  THEN IF has_urls THEN Weights(25, 20, 25, 10, 20)
       ELSE Weights(30, 25, 0, 15, 30)
  ELSE IF mlAvail \/ trAvail
  THEN IF has_urls THEN Weights(30, 30, 20, 10, 10)
       ELSE Weights(35, 40, 0, 15, 10)
  ELSE IF has_urls
  THEN IF rule_score < 25 /\ url_score > 35 THEN Weights(0, 15, 65, 25, 0)
       ELSE Weights(0, 55, 25, 20, 0)
  ELSE Weights(0, 75, 0, 25, 0)

\* the weight branches of _ensemble_score, in hundredths
SelectWeights(mlAvail, trAvail, has_urls, rule_score, url_score) ==
  IF mlAvail /\ trAvail
  THEN IF has_urls THEN Weights(25, 20, 25, 10, 20)
       ELSE Weights(30, 25, 0, 15, 30)
  ELSE IF mlAvail \/ trAvail
  THEN IF has_urls THEN Weights(30, 30, 20, 10, 10)
       ELSE Weights(35, 40, 0, 15, 10)
  ELSE IF has_urls
  THEN IF rule_score < 25 /\ url_score > 35 THEN Weights(0, 15, 65, 20, 0)
       ELSE Weights(0, 55, 25, 20, 0)
  ELSE Weights(0, 75, 0, 25, 0)

\* min(score * factor, 1.0) for a factor in hundredths
Boost(score, factor) == Min((score * factor) \div 100, 1000000)

\* progressive boosting on the number of strong indicators
Boosted(score, indicator_count, rule_score) ==
  IF indicator_count >= 4 THEN Boost(score, 150)
  ELSE IF indicator_count >= 3 THEN Boost(score, 135)
  ELSE IF indicator_count >= 2 THEN Boost(score, 120)
  ELSE IF indicator_count >= 1 /\ rule_score > 35 THEN Boost(score, 115)
  ELSE score

\* a branch of an if/elif statement whose body is score = max(score, floor)
Branch(cond, floor) == [cond |-> cond, floor |-> floor]

\* a statement whose body is score = floor
ApplyStatement_assigning(score, branches) ==
  IF FirstTrue([i \in DOMAIN branches |-> branches[i].cond]) = 0 THEN score
  ELSE branches[FirstTrue([i \in DOMAIN branches |-> branches[i].cond])].floor

\* the statement takes the first branch whose condition holds
ApplyStatement(score, branches) ==
  LET k == FirstTrue([i \in DOMAIN branches |-> branches[i].cond])
  IN  IF k = 0 THEN score ELSE Max(score, branches[k].floor)

\* the statements one after the other
RECURSIVE ApplyStatements(_, _)
ApplyStatements(score, statements) ==
  IF Len(statements) = 0 THEN score
  ELSE ApplyStatements(ApplyStatement(score, Head(statements)), Tail(statements))

\* the overrides made in every mode
CommonOverrides(rule_score, url_suspicious_count, brand_result, trAvail, transformer_score) ==
  << << Branch(brand_result.detected /\ brand_result.similarity_score > 85, 750000) >>,
     << Branch(url_suspicious_count >= 2, 650000) >>,
     << Branch(rule_score > 50, 650000), Branch(rule_score > 40, 550000) >>,
     << Branch(trAvail /\ transformer_score > 70 /\ rule_score > 25, 650000) >> >>

\* the overrides made when neither model is available
RuleOnlyOverrides(rule_score, url_score, brand_result) ==
  << << Branch(rule_score > 35 /\ brand_result.detected, 600000),
        Branch(rule_score > 40, 550000),
        Branch(rule_score > 35, 500000) >>,
     << Branch(url_score > 25 /\ rule_score > 15, 500000) >>,
     << Branch(brand_result.detected /\ (rule_score > 15 \/ url_score > 20), 550000) >> >>

\* the override floors, applied in code order
Floors(score, rule_score, url_score, url_suspicious_count, brand_result, mlAvail, trAvail, transformer_score) ==
  ApplyStatements(score,
    CommonOverrides(rule_score, url_suspicious_count, brand_result, trAvail, transformer_score)
      \o (IF ~mlAvail /\ ~trAvail
          THEN RuleOnlyOverrides(rule_score, url_score, brand_result)
          ELSE <<>>))

\* max(r.score for r in url_results), 0.0 without URLs
url_score_of(url_results) ==
  IF Len(url_results) > 0
  THEN MaxSeq([i \in DOMAIN url_results |-> url_results[i].score])
  ELSE 0

\* sum(1 for r in url_results if r.is_suspicious)
url_suspicious_count_of(url_results) ==
  Cardinality({i \in DOMAIN url_results : url_results[i].is_suspicious})

\* the base weighted score
WeightedScore(weights, ml_score, rule_score, url_score, brand_score, transformer_score) ==
  100 * ( weights.ml * ml_score
        + weights.rule * rule_score
        + weights.url * url_score
        + weights.brand * brand_score
        + weights.transformer * transformer_score )

\* len(strong_indicators)
StrongCount(strong) == Cardinality({i \in DOMAIN strong : strong[i]})

\* _ensemble_score from the url score and the availability of the models on
EnsembleOf(ml_score, rule_score, url_score, url_suspicious_count, has_urls, brand_result, transformer_score, mlAvail, trAvail) ==
  Min(Max(
    Floors(
      Boosted(
        WeightedScore(SelectWeights(mlAvail, trAvail, has_urls, rule_score, url_score),
                      ml_score, rule_score, url_score,
                      IF brand_result.detected THEN brand_result.similarity_score ELSE 0,
                      transformer_score),
        StrongCount(<< mlAvail /\ ml_score > 60,
                       rule_score > 20,
                       url_score > 25,
                       brand_result.detected /\ brand_result.similarity_score > 50,
                       trAvail /\ transformer_score > 60 >>),
        rule_score),
      rule_score, url_score, url_suspicious_count, brand_result, mlAvail, trAvail,
      transformer_score),
    0), 1000000)

\* the local variable weights of _ensemble_score
weights_of(mlModel, trModel, ml_score, rule_score, url_results, transformer_score) ==
  SelectWeights(ml_available(mlModel, ml_score),
                transformer_available(trModel, transformer_score),
                Len(url_results) > 0, rule_score, url_score_of(url_results))

\* the local variable score of _ensemble_score before the boosting
base_score_of(mlModel, trModel, ml_score, rule_score, url_results, brand_result, transformer_score) ==
  WeightedScore(weights_of(mlModel, trModel, ml_score, rule_score, url_results, transformer_score),
                ml_score, rule_score, url_score_of(url_results),
                IF brand_result.detected THEN brand_result.similarity_score ELSE 0,
                transformer_score)

\* the local variable indicator_count of _ensemble_score
indicator_count_of(mlModel, trModel, ml_score, rule_score, url_results, brand_result, transformer_score) ==
  StrongCount(<< ml_available(mlModel, ml_score) /\ ml_score > 60,
                 rule_score > 20,
                 url_score_of(url_results) > 25,
                 brand_result.detected /\ brand_result.similarity_score > 50,
                 transformer_available(trModel, transformer_score) /\ transformer_score > 60 >>)

\* the local variable score of _ensemble_score after the boosting
boosted_score_of(mlModel, trModel, ml_score, rule_score, url_results, brand_result, transformer_score) ==
  Boosted(base_score_of(mlModel, trModel, ml_score, rule_score, url_results, brand_result,
                        transformer_score),
          indicator_count_of(mlModel, trModel, ml_score, rule_score, url_results, brand_result,
                             transformer_score),
          rule_score)

_ensemble_score(mlModel, trModel, ml_score, rule_score, url_results, brand_result, transformer_score) ==
  EnsembleOf(ml_score, rule_score,
             url_score_of(url_results), url_suspicious_count_of(url_results),
             Len(url_results) > 0, brand_result, transformer_score,
             ml_available(mlModel, ml_score),
             transformer_available(trModel, transformer_score))

(***************************************************************************)
(* PhishingDetector._collect_indicators                                    *)
(***************************************************************************)
\* f"Suspicious domain: {extracted.domain}.{extracted.suffix}" for each URL
\* whose suffix is in SUSPICIOUS_TLDS
DomainIndicators(extracts) ==
  [i \in DOMAIN extracts |->
     <<"S","u","s","p","i","c","i","o","u","s"," ","d","o","m","a","i","n",":"," ">> \o extracts[i].domain \o <<".">> \o extracts[i].suffix]

_collect_indicators(urls, brand_result, rule_indicators, seed) ==
  LET impersonation == IF brand_result.detected
                       THEN << <<"P","o","s","s","i","b","l","e"," ">> \o brand_result.brand
                                 \o <<" ","i","m","p","e","r","s","o","n","a","t","i","o","n"," ","d","e","t","e","c","t","e","d">> >>
                       ELSE <<>>
      shortener == IF \E i \in DOMAIN urls : ShortenerInfo[urls[i]]
                   THEN << <<"U","R","L"," ","s","h","o","r","t","e","n","e","r"," ","u","s","e","d"," ","(","m","a","y"," ","h","i","d","e"," ","d","e","s","t","i","n","a","t","i","o","n",")">> >>
                   ELSE <<>>
      domains == DomainIndicators(
                   SelectSeq([i \in DOMAIN urls |-> ExtractInfo[urls[i]]],
                             LAMBDA e : HAS_TLDEXTRACT /\ IsSuspiciousTld(e.suffix)))
  IN  SetIteration(rule_indicators \o domains \o impersonation \o shortener, seed)

(***************************************************************************)
(* PhishingDetector._determine_threat_level                                *)
(***************************************************************************)
critical_keywords ==
  << <<"c","r","e","d","e","n","t","i","a","l">>, <<"p","a","s","s","w","o","r","d">>, <<"l","o","o","k","a","l","i","k","e">>, <<"t","y","p","o","s","q","u","a","t","t","i","n","g">>, <<"h","o","m","o","g","l","y","p","h">>,
     <<"s","p","o","o","f","i","n","g">>, <<"o","b","f","u","s","c","a","t","i","o","n">>, <<"@">>, <<"c","r","y","p","t","o">>, <<"s","e","e","d"," ","p","h","r","a","s","e">>, <<"p","r","i","v","a","t","e"," ","k","e","y">> >>

critical_initials == {critical_keywords[k][1] : k \in DOMAIN critical_keywords}

\* any(any(kw in ind.lower() for kw in critical_keywords) for ind in indicators):
\* kw occurs in ind at some position; only the positions that hold the first
\* character of a keyword are tried
has_critical(indicators) ==
  \E ind \in {lower(x) : x \in Range(indicators)} :
     \E i \in DOMAIN ind :
        /\ ind[i] \in critical_initials
        /\ \E kw \in Range(critical_keywords) : MatchAt(ind, kw, i)

\* threat level whose HIGH tier starts at five indicators
_determine_threat_level_high_at_five(score, indicators) ==
  IF score >= 800000 \/ (score >= 700000 /\ has_critical(indicators)) \/ Len(indicators) >= 6
  THEN "CRITICAL"
  ELSE IF score >= 650000 \/ (score >= 550000 /\ has_critical(indicators)) \/ Len(indicators) >= 5
  THEN "HIGH"
  ELSE IF score >= 500000 \/ Len(indicators) >= 3 THEN "MEDIUM"
  ELSE IF score >= 300000 \/ Len(indicators) >= 1 THEN "LOW"
  ELSE "NONE"

\* _determine_threat_level leaving NONE at 0.35 and by the score alone
_determine_threat_level_low_above_threshold(score, indicators) ==
  IF score >= 800000 \/ (score >= 700000 /\ has_critical(indicators)) \/ Len(indicators) >= 6
  THEN "CRITICAL"
  ELSE IF score >= 650000 \/ (score >= 550000 /\ has_critical(indicators)) \/ Len(indicators) >= 4
  THEN "HIGH"
  ELSE IF score >= 500000 \/ Len(indicators) >= 3 THEN "MEDIUM"
  ELSE IF score >= 350000 THEN "LOW"
  ELSE "NONE"

_determine_threat_level(score, indicators) ==
  LET critical == has_critical(indicators)
      indicator_count == Len(indicators)
  IN  IF score >= 800000 \/ (score >= 700000 /\ critical) \/ indicator_count >= 6
      THEN "CRITICAL"
      ELSE IF score >= 650000 \/ (score >= 550000 /\ critical) \/ indicator_count >= 4
      THEN "HIGH"
      ELSE IF score >= 500000 \/ indicator_count >= 3 THEN "MEDIUM"
      ELSE IF score >= 300000 \/ indicator_count >= 1 THEN "LOW"
      ELSE "NONE"

(***************************************************************************)
(* PhishingDetector._determine_phishing_type                               *)
(***************************************************************************)
\* _determine_phishing_type without the early return for is_phishing false
_determine_phishing_type_unguarded(scanType, url_results, is_phishing) ==
  LET all_suspicious == Len(url_results) > 0
                        /\ \A i \in DOMAIN url_results : url_results[i].is_suspicious
      any_suspicious == \E i \in DOMAIN url_results : url_results[i].is_suspicious
  IN  IF scanType = "url" \/ all_suspicious THEN "URL"
      ELSE IF scanType = "sms" THEN "SMS"
      ELSE IF scanType = "email" THEN "EMAIL"
      ELSE IF any_suspicious THEN "URL"
      ELSE "NONE"

_determine_phishing_type(scanType, url_results, is_phishing) ==
  LET all_suspicious == Len(url_results) > 0
                        /\ \A i \in DOMAIN url_results : url_results[i].is_suspicious
      any_suspicious == \E i \in DOMAIN url_results : url_results[i].is_suspicious
  IN  IF ~is_phishing THEN "NONE"
      ELSE IF scanType = "url" \/ all_suspicious THEN "URL"
      ELSE IF scanType = "sms" THEN "SMS"
      ELSE IF scanType = "email" THEN "EMAIL"
      ELSE IF any_suspicious THEN "URL"
      ELSE "NONE"

(***************************************************************************)
(* PhishingDetector._generate_recommendation                               *)
(***************************************************************************)
_generate_recommendation(threat_level) ==
  CASE threat_level = "NONE" ->
         "This message appears to be safe. However, always verify sender identity for sensitive requests."
    [] threat_level = "LOW" ->
         "Some suspicious elements detected. Verify the sender before taking any action."
    [] threat_level = "MEDIUM" ->
         "This message contains suspicious content. Do not click links or provide personal information. Verify directly with the organization."
    [] threat_level = "HIGH" ->
         "This message is likely a phishing attempt. Do not respond, click links, or provide any information. Report and delete."
    [] threat_level = "CRITICAL" ->
         "DANGER: This is a phishing attack. Do not interact with this message in any way. Report to your IT department and delete immediately."
    [] OTHER -> "Exercise caution with this message."

(***************************************************************************)
(* PhishingDetector._detect_scan_type                                      *)
(***************************************************************************)
\* ScanTypeOf leaving the type as it was given when no pattern decides
ScanTypeOf_auto_kept(info, length) ==
  IF info[1].http_start /\ TotalOf(info, LAMBDA f : f.words) <= 3 THEN "url"
  ELSE IF Cardinality(UnionOf(info, LAMBDA f : f.sms)) >= 1 /\ length < 500 THEN "sms"
  ELSE "auto"

\* the type for what the patterns find in the tokens (info) and len(text)
ScanTypeOf(info, length) ==
  IF info[1].http_start /\ TotalOf(info, LAMBDA f : f.words) <= 3 THEN "url"
  ELSE IF Cardinality(UnionOf(info, LAMBDA f : f.sms)) >= 1 /\ length < 500 THEN "sms"
  ELSE "email"

_detect_scan_type(text) == ScanTypeOf(InfoOf(text), TextLen(text))

(***************************************************************************)
(* PhishingDetector.detect                                                 *)
(***************************************************************************)
\* round(x, 4) of a score in millionths, halves to even
round4(x) ==
  LET q == x \div 100
      r == x % 100
  IN  100 * (IF r > 50 \/ (r = 50 /\ q % 2 = 1) THEN q + 1 ELSE q)

\* PhishingDetector._empty_result
\* an empty result whose recommendation is looked up by its threat level
_empty_result_looked_up ==
  [ is_phishing |-> FALSE,
    confidence |-> 0,
    phishing_type |-> "NONE",
    threat_level |-> "NONE",
    indicators |-> <<>>,
    urls_analyzed |-> <<>>,
    brand_impersonation |-> None,
    recommendation |-> _generate_recommendation("NONE"),
    details |-> None ]

_empty_result ==
  [ is_phishing |-> FALSE,
    confidence |-> 0,
    phishing_type |-> "NONE",
    threat_level |-> "NONE",
    indicators |-> <<>>,
    urls_analyzed |-> <<>>,
    brand_impersonation |-> None,
    recommendation |-> "No suspicious content detected.",
    details |-> None ]

\* the threshold with the indicator counts looked at after the URL case
Threshold_count_last(scanType, text, urls, url_results, indicators) ==
  IF Len(indicators) >= 5 THEN 350000
  ELSE IF Len(indicators) >= 3 THEN 400000
  ELSE IF /\ scanType = "url" \/ (Len(urls) > 0 /\ TextLen(text) < 100)
          /\ \E i \in DOMAIN url_results : url_results[i].is_suspicious
  THEN 320000
  ELSE 450000

\* the decision threshold, in millionths
Threshold(scanType, text, urls, url_results, indicators) ==
  IF /\ scanType = "url" \/ (Len(urls) > 0 /\ TextLen(text) < 100)
     /\ \E i \in DOMAIN url_results : url_results[i].is_suspicious
  THEN 320000
  ELSE IF Len(indicators) >= 5 THEN 350000
  ELSE IF Len(indicators) >= 3 THEN 400000
  ELSE 450000

\* _analyze_urls: one URLAnalysisResult per URL, in order
_analyze_urls(urls) == [i \in DOMAIN urls |-> UrlInfo[urls[i]]]

\* is_too_short with the limit one lower
is_too_short_below_two(raw) == Len(raw) = 0 \/ TextLen(strip(raw)) < 2

\* detect: not text or len(text.strip()) < 3
is_too_short(raw) == Len(raw) = 0 \/ TextLen(strip(raw)) < 3

\* detect, lines 468-475: the stripped text, the scan type and the URLs
Scanned(text, scanTypeArg, mlModel, trModel, seed) ==
  [ text |-> text,
    scanTypeArg |-> scanTypeArg,
    mlModel |-> mlModel,
    trModel |-> trModel,
    seed |-> seed,
    scan_type |-> IF scanTypeArg = "auto" THEN _detect_scan_type(text) ELSE scanTypeArg,
    urls |-> extract_urls(text) ]

\* detect, lines 478-482: the detection methods
Detected(s) ==
  [ ml |-> _ml_detection(s.mlModel),
    rules |-> _rule_based_detection(s.text),
    url_results |-> _analyze_urls(s.urls),
    brand_result |-> _detect_brand_impersonation(s.text, s.urls, s.seed),
    tr |-> _transformer_detection(s.trModel) ] @@ s

\* detect, lines 485-496: the ensemble score and the indicators
Scored(s) ==
  [ final_score |-> _ensemble_score(s.mlModel, s.trModel, s.ml.value, s.rules.score,
                                    s.url_results, s.brand_result, s.tr.value),
    indicators |-> _collect_indicators(s.urls, s.brand_result, s.rules.indicators, s.seed) ]
    @@ s

\* detect, lines 499-516: the threat level and the decision
Decided(s) ==
  [ threat_level |-> _determine_threat_level(s.final_score, s.indicators),
    threshold |-> Threshold(s.scan_type, s.text, s.urls, s.url_results, s.indicators),
    is_phishing |-> s.final_score >= Threshold(s.scan_type, s.text, s.urls, s.url_results,
                                               s.indicators) ] @@ s

\* detect, lines 519-544: the PhishingResult returned
PhishingResult(s) ==
  [ is_phishing |-> s.is_phishing,
    confidence |-> round4(s.final_score),
    phishing_type |-> _determine_phishing_type(s.scan_type, s.url_results, s.is_phishing),
    threat_level |-> s.threat_level,
    indicators |-> s.indicators,
    urls_analyzed |-> s.url_results,
    brand_impersonation |-> IF s.brand_result.detected THEN s.brand_result ELSE None,
    recommendation |-> _generate_recommendation(s.threat_level),
    details |-> [ ml_score |-> s.ml.value,
                  rule_score |-> s.rules.score,
                  transformer_score |-> s.tr.value,
                  url_count |-> Len(s.urls),
                  scan_type |-> s.scan_type ] ]

\* the methods and collaborators detect called, in order; an exception that
\* leaves a method ends the list
CallsMade(s) ==
  (IF s.scanTypeArg = "auto" THEN <<"_detect_scan_type">> ELSE <<>>)
    \o <<"extract_urls", "_ml_detection">> \o s.ml.calls
    \o (IF s.ml.escaped THEN <<>>
        ELSE <<"_rule_based_detection", "_analyze_urls",
               "_detect_brand_impersonation", "_transformer_detection">>
             \o s.tr.calls
             \o (IF s.tr.escaped THEN <<>>
                 ELSE <<"_ensemble_score", "_collect_indicators",
                        "_determine_threat_level", "_determine_phishing_type",
                        "_generate_recommendation">>))

\* what a run of detect that went through the stages s gives
Completed(s) ==
  IF s.ml.escaped \/ s.tr.escaped
  THEN [result |-> None, calls |-> CallsMade(s), raised |-> TRUE]
  ELSE [result |-> PhishingResult(s), calls |-> CallsMade(s), raised |-> FALSE]

\* detect returns [result, calls, raised]: the PhishingResult (None when an
\* exception leaves detect), the methods and collaborators called, in order,
\* and whether an exception left detect
detect(raw, scanTypeArg, mlModel, trModel, seed) ==
  IF is_too_short(raw)
  THEN [result |-> _empty_result, calls |-> <<"_empty_result">>, raised |-> FALSE]
  ELSE Completed(Decided(Scored(Detected(Scanned(strip(raw), scanTypeArg, mlModel, trModel,
                                                 seed)))))

(***************************************************************************)
(* WeeklyRetrainingScheduler.run_weekly_job.  Its callers are coroutines   *)
(* of one event loop: a call runs without interruption up to an await, and *)
(* the awaits of the body are the calls of _retrain_model, one per model   *)
(* type.  What _retrain_model returns is kept as "result"; of the dict a   *)
(* call returns, its status is kept.                                       *)
(***************************************************************************)
\* the coroutines that call run_weekly_job on the one scheduler
MaxTasks == 2

\* the calls one coroutine makes
MaxCalls == 2

\* the keys of model_paths, as retrain_models passes them
model_paths == << "sms", "phishing", "voice" >>

\* how an awaited _retrain_model ends: it returns, raises an Exception, or the
\* coroutine is cancelled at the await (CancelledError is not an Exception)
RetrainOutcomes == {"returns", "raises", "cancelled"}

\* how the cleanup loop ends
CleanupOutcomes == {"returns", "raises"}

\* a coroutine that has not called yet
NewTask == [pc |-> "idle", i |-> 0, results |-> <<>>, returned |-> None, calls |-> 0]

\* WeeklyRetrainingScheduler.__init__: is_running, len(last_run), and the callers
NewScheduler ==
  [is_running |-> FALSE, last_run |-> 0, tasks |-> [t \in 1..MaxTasks |-> NewTask]]

\* run_weekly_job entered without looking at is_running
Entered_unguarded(s, t) ==
  [s EXCEPT !.is_running = TRUE,
            !.tasks[t] = [pc |-> "retraining", i |-> 1, results |-> <<>>,
                          returned |-> None, calls |-> @.calls + 1]]

\* run_weekly_job from its first statement to the first await, or to the return of
\* {"status": "skipped", "reason": "already_running"}
Entered(s, t) ==
  IF s.is_running
  THEN [s EXCEPT !.tasks[t] = [pc |-> "returned", i |-> 0, results |-> <<>>,
                               returned |-> [status |-> "skipped", reason |-> "already_running"],
                               calls |-> @.calls + 1]]
  ELSE [s EXCEPT !.is_running = TRUE,
                 !.tasks[t] = [pc |-> "retraining", i |-> 1, results |-> <<>>,
                               returned |-> None, calls |-> @.calls + 1]]

\* results[model_type] after the await: the result, or {"status": "error", ...}
ResultOf(outcome) == IF outcome = "raises" THEN "error" ELSE "result"

\* the end of the call that leaves is_running set when an exception leaves the body
Ended_set_when_raised(s, t, pc, returned) ==
  [s EXCEPT !.is_running = (pc = "raised"),
            !.tasks[t] = [pc |-> pc, i |-> 0, results |-> <<>>, returned |-> returned,
                          calls |-> @.calls]]

\* finally: self.is_running = False, then the return or the exception; the locals
\* of the call are gone
Ended(s, t, pc, returned) ==
  [s EXCEPT !.is_running = FALSE,
            !.tasks[t] = [pc |-> pc, i |-> 0, results |-> <<>>, returned |-> returned,
                          calls |-> @.calls]]

\* results[model_type] = ... for the last model type and self.last_run[...] = results
Recorded(s, t, outcome) ==
  [s EXCEPT !.tasks[t].results = Append(@, ResultOf(outcome)),
            !.last_run = @ + 1]

\* run_weekly_job from the end of one await to the next await or to the end of the call
Resumed(s, t, outcome, cleanup) ==
  IF outcome = "cancelled" THEN Ended(s, t, "raised", None)
  ELSE IF s.tasks[t].i < Len(model_paths)
  THEN [s EXCEPT !.tasks[t].i = @ + 1,
                 !.tasks[t].results = Append(@, ResultOf(outcome))]
  ELSE IF cleanup = "raises" THEN Ended(Recorded(s, t, outcome), t, "raised", None)
  ELSE Ended(Recorded(s, t, outcome), t, "returned", [status |-> "completed"])


(***************************************************************************)
(* ModelRegistry: the dict self.registry with its keys versions, deployed  *)
(* and history.  A version's info keeps model_type, version, trained_at,   *)
(* deployed_at and status; the model files, metrics and changelog have no  *)
(* part in what the methods decide.  An isoformat() time stamp is the      *)
(* one-element sequence of its instant.                                    *)
(***************************************************************************)
\* the model types versions are registered for
ModelTypes == {"sms", "phishing"}

\* the number of version strings
MaxVersions == 2

\* the latest instant of the clock
MaxClock == 4

\* the version strings v1, v2, ...
VersionName(n) == <<"v">> \o str(n)

Versions == { VersionName(n) : n \in 1..MaxVersions }

\* keep_count of cleanup_old_versions, 5 being its default
KeepCounts == {0, 1, 5}

\* datetime.now().isoformat()
isoformat(now) == <<now>>

\* d[k] = v on a dict
Put(d, k, v) == [x \in (DOMAIN d) \cup {k} |-> IF x = k THEN v ELSE d[x]]

\* d.get(k)
Get(d, k) == IF k \in DOMAIN d THEN d[k] ELSE None

\* _load_registry without a registry file
NewRegistry == [versions |-> <<>>, deployed |-> <<>>, history |-> <<>>]

\* ModelVersionInfo(...).to_dict() of register_version
ModelVersionInfo(model_type, version, now) ==
  [model_type |-> model_type, version |-> version, trained_at |-> isoformat(now),
   deployed_at |-> None, status |-> "testing"]

\* self.registry["versions"].get(model_type, {})
TypeVersions(reg, model_type) ==
  IF model_type \in DOMAIN reg.versions THEN reg.versions[model_type] ELSE <<>>

\* register_version: the registry after it
register_version(reg, model_type, version, now) ==
  [reg EXCEPT !.versions =
     Put(reg.versions, model_type,
         Put(TypeVersions(reg, model_type), version,
             ModelVersionInfo(model_type, version, now)))]

\* deploy_version past its two checks: status, deployed_at, deployed and history
Deployed(reg, model_type, version, now) ==
  [versions |-> [reg.versions EXCEPT ![model_type][version].status = "deployed",
                                     ![model_type][version].deployed_at = isoformat(now)],
   deployed |-> Put(reg.deployed, model_type, version),
   history  |-> Append(reg.history,
                       [action |-> "deploy", model_type |-> model_type, version |-> version,
                        previous_version |-> Get(reg.deployed, model_type),
                        timestamp |-> isoformat(now)])]

\* deploy_version: the registry after it and what it returns
deploy_version(reg, model_type, version, now) ==
  IF model_type \notin DOMAIN reg.versions THEN [registry |-> reg, value |-> FALSE]
  ELSE IF version \notin DOMAIN reg.versions[model_type] THEN [registry |-> reg, value |-> FALSE]
  ELSE [registry |-> Deployed(reg, model_type, version, now), value |-> TRUE]

\* the loop over reversed(history): previous_version of the latest deploy of the type
RECURSIVE PreviousVersion(_, _, _)
PreviousVersion(history, model_type, k) ==
  IF k = 0 THEN None
  ELSE IF history[k].model_type = model_type /\ history[k].action = "deploy"
  THEN history[k].previous_version
  ELSE PreviousVersion(history, model_type, k - 1)

\* target_version as rollback resolves it
TargetVersion(reg, model_type, target_version) ==
  IF target_version = None
  THEN PreviousVersion(reg.history, model_type, Len(reg.history))
  ELSE target_version

\* rollback: the current version marked as rolled back
MarkRolledBack(reg, model_type) ==
  IF model_type \in DOMAIN reg.deployed
  THEN [reg EXCEPT !.versions[model_type][reg.deployed[model_type]].status = "rolled_back"]
  ELSE reg

\* rollback once the target is resolved
RollbackTo(reg, model_type, target, now) ==
  IF Len(target) = 0 THEN [registry |-> reg, value |-> FALSE]
  ELSE deploy_version(MarkRolledBack(reg, model_type), model_type, target, now)

\* rollback: the registry after it and what it returns
rollback(reg, model_type, target_version, now) ==
  RollbackTo(reg, model_type, TargetVersion(reg, model_type, target_version), now)

\* the index of a version in sorted_versions (0-based): the versions trained later
SortedIndex(versions, version) ==
  Cardinality({w \in DOMAIN versions : versions[w].trained_at[1] > versions[version].trained_at[1]})

\* to_keep: the keep_count most recent versions and the deployed one
to_keep(versions, keep_count, deployed_version) ==
  { v \in DOMAIN versions : SortedIndex(versions, v) < keep_count \/ v = deployed_version }

\* the versions dict of a type without the versions that are not kept
Kept(versions, keep) == [v \in keep |-> versions[v]]

\* cleanup_old_versions past its early return
CleanedUp(reg, model_type, versions, keep) ==
  [registry |-> [reg EXCEPT !.versions[model_type] = Kept(versions, keep)],
   value |-> Cardinality(DOMAIN versions) - Cardinality(keep)]

\* cleanup_old_versions: the registry after it and the number of versions removed
cleanup_old_versions(reg, model_type, keep_count) ==
  IF Cardinality(DOMAIN TypeVersions(reg, model_type)) <= keep_count
  THEN [registry |-> reg, value |-> 0]
  ELSE CleanedUp(reg, model_type, TypeVersions(reg, model_type),
                 to_keep(TypeVersions(reg, model_type), keep_count,
                         Get(reg.deployed, model_type)))

\* the variables of the detector and of the scheduler
not_registry_vars ==
  <<req_text, req_scan_type, req_items, ml_model, transformer_model, hash_seed, result,
    last_calls, raised, batch_response, threads, scheduler>>

InitRegistry ==
  /\ registry = NewRegistry
  /\ clock = 0
  /\ call = None
  /\ ret = None
  /\ threads = <<>>
  /\ ml_model = NoModel
  /\ transformer_model = NoModel
  /\ hash_seed = 0
  /\ req_text = <<>>
  /\ req_items = <<>>
  /\ req_scan_type = "auto"
  /\ result = None
  /\ last_calls = <<>>
  /\ raised = FALSE
  /\ batch_response = None
  /\ scheduler = NewScheduler

\* await registry.register_version(model_type, version, ...)
RegisterVersion(model_type, version) ==
  /\ clock < MaxClock
  /\ clock' = clock + 1
  /\ registry' = register_version(registry, model_type, version, clock')
  /\ call' = [fn |-> "register_version", model_type |-> model_type, version |-> version]
  /\ ret' = [value |-> ModelVersionInfo(model_type, version, clock')]
  /\ UNCHANGED not_registry_vars

\* await registry.deploy_version(model_type, version)
DeployVersion(model_type, version) ==
  /\ clock < MaxClock
  /\ clock' = clock + 1
  /\ registry' = deploy_version(registry, model_type, version, clock').registry
  /\ call' = [fn |-> "deploy_version", model_type |-> model_type, version |-> version]
  /\ ret' = [value |-> deploy_version(registry, model_type, version, clock').value]
  /\ UNCHANGED not_registry_vars

\* await registry.rollback(model_type, target_version); target_version may be None
Rollback(model_type, target_version) ==
  /\ clock < MaxClock
  /\ clock' = clock + 1
  /\ registry' = rollback(registry, model_type, target_version, clock').registry
  /\ call' = [fn |-> "rollback", model_type |-> model_type, target_version |-> target_version]
  /\ ret' = [value |-> rollback(registry, model_type, target_version, clock').value]
  /\ UNCHANGED not_registry_vars

\* registry.cleanup_old_versions(model_type, keep_count)
CleanupOldVersions(model_type, keep_count) ==
  /\ registry' = cleanup_old_versions(registry, model_type, keep_count).registry
  /\ call' = [fn |-> "cleanup_old_versions", model_type |-> model_type, keep_count |-> keep_count]
  /\ ret' = [value |-> cleanup_old_versions(registry, model_type, keep_count).value]
  /\ UNCHANGED clock
  /\ UNCHANGED not_registry_vars

NextRegistry ==
  \/ \E model_type \in ModelTypes, version \in Versions : RegisterVersion(model_type, version)
  \/ \E model_type \in ModelTypes, version \in Versions : DeployVersion(model_type, version)
  \/ \E model_type \in ModelTypes, target_version \in Versions \cup {None} :
        Rollback(model_type, target_version)
  \/ \E model_type \in ModelTypes, keep_count \in KeepCounts :
        CleanupOldVersions(model_type, keep_count)

SpecRegistry == InitRegistry /\ [][NextRegistry]_vars

\* the variables of the detector and of the registry
not_scheduler_vars ==
  <<req_text, req_scan_type, req_items, ml_model, transformer_model, hash_seed, result,
    last_calls, raised, batch_response, threads, call, ret, registry, clock>>

InitScheduler ==
  /\ scheduler = NewScheduler
  /\ registry = NewRegistry
  /\ clock = 0
  /\ call = None
  /\ ret = None
  /\ threads = <<>>
  /\ ml_model = NoModel
  /\ transformer_model = NoModel
  /\ hash_seed = 0
  /\ req_text = <<>>
  /\ req_items = <<>>
  /\ req_scan_type = "auto"
  /\ result = None
  /\ last_calls = <<>>
  /\ raised = FALSE
  /\ batch_response = None

\* a coroutine calls await scheduler.run_weekly_job()
RunWeeklyJob(t) ==
  /\ scheduler.tasks[t].pc # "retraining"
  /\ scheduler.tasks[t].calls < MaxCalls
  /\ scheduler' = Entered(scheduler, t)
  /\ UNCHANGED not_scheduler_vars

\* the event loop resumes the coroutine whose awaited _retrain_model has ended
ResumeJob(t) ==
  /\ scheduler.tasks[t].pc = "retraining"
  /\ \E outcome \in RetrainOutcomes, cleanup \in CleanupOutcomes :
        scheduler' = Resumed(scheduler, t, outcome, cleanup)
  /\ UNCHANGED not_scheduler_vars

NextScheduler == \E t \in 1..MaxTasks : RunWeeklyJob(t) \/ ResumeJob(t)

SpecScheduler == InitScheduler /\ [][NextScheduler]_vars

\* every awaited _retrain_model ends and the event loop then resumes its coroutine
SpecSchedulerFair == SpecScheduler /\ \A t \in 1..MaxTasks : WF_vars(ResumeJob(t))
(***************************************************************************)
(* The service: one PhishingDetector, the /predict-phishing and            *)
(* /batch-phishing handlers, and restarts of the process                   *)
(***************************************************************************)
\* bounds of the model
MaxTokens == 2
MaxUrls == 6
MaxBatch == 2

\* texts of up to MaxTokens tokens over the vocabulary
VocabularyTexts == UNION {[1..n -> Vocabulary] : n \in 1..MaxTokens}

UrlCycle ==
  << <<"h","t","t","p",":","/","/","1","9","2",".","1","6","8",".","1",".","1","/","l","o","g","i","n">>, <<"h","t","t","p","s",":","/","/","b","i","t",".","l","y","/","x">>,
     <<"h","t","t","p",":","/","/","p","a","y","p","a","1","-","v","e","r","i","f","y",".","t","k","/","l","o","g","i","n">>, <<"h","t","t","p","s",":","/","/","w","w","w",".","p","a","y","p","a","l",".","c","o","m">> >>

\* a text of n URLs
UrlRun(n) == [i \in 1..n |-> UrlCycle[((i - 1) % Len(UrlCycle)) + 1]]

UrlRuns == {UrlRun(n) : n \in 1..MaxUrls}

\* further messages: blank and short ones, two brands mentioned equally often,
\* a courteous message, messages with the official URL of a brand, a message
\* that trips most rules
Samples ==
  { << <<" "," ">> >>, << <<" "," ">>, <<"H","i">> >>, << <<"H","i">>, <<" "," ">> >>, << <<"H","i">> >>,
    << <<"H","i">>, <<"h","t","t","p","s",":","/","/","w","w","w",".","p","a","y","p","a","l",".","c","o","m">> >>,
    << <<"p","a","y","p","a","l">>, <<"a","m","a","z","o","n">>, <<"h","t","t","p",":","/","/","p","a","y","p","a","1","-","v","e","r","i","f","y",".","t","k","/","l","o","g","i","n">> >>,
    << <<"a","m","a","z","o","n">>, <<"p","a","y","p","a","l">>, <<"h","t","t","p",":","/","/","p","a","y","p","a","1","-","v","e","r","i","f","y",".","t","k","/","l","o","g","i","n">> >>,
    << <<"v","e","r","i","f","y"," ","y","o","u","r"," ","a","c","c","o","u","n","t">>, <<"t","h","a","n","k"," ","y","o","u"," ","f","o","r">> >>,
    << <<"p","a","y","p","a","l">>, <<"v","e","r","i","f","y"," ","y","o","u","r"," ","a","c","c","o","u","n","t">>, <<"h","t","t","p","s",":","/","/","w","w","w",".","p","a","y","p","a","l",".","c","o","m">> >>,
    << <<"p","a","y","p","a","l">>, <<"h","t","t","p","s",":","/","/","w","w","w",".","p","a","y","p","a","l",".","c","o","m">>, <<"h","t","t","p",":","/","/","p","a","y","p","a","1","-","v","e","r","i","f","y",".","t","k","/","l","o","g","i","n">> >>,
    << <<"v","e","r","i","f","y"," ","y","o","u","r"," ","a","c","c","o","u","n","t">>, <<"e","n","t","e","r"," ","y","o","u","r"," ","p","a","s","s","w","o","r","d">>, <<"$","1",",","0","0","0",",","0","0","0">>, <<"c","l","i","c","k"," ","h","e","r","e","!">>,
       <<"t","a","p"," ","h","e","r","e">>, <<"p","a","y","p","a","l">>, <<"h","t","t","p",":","/","/","p","a","y","p","a","1","-","v","e","r","i","f","y",".","t","k","/","l","o","g","i","n">> >>,
    ScenarioText, << UpperIpUrl >>, << <<"h","t","t","p","s",":","/","/","w","w","w",".","m","i","c","r","o","s","o","f","t",".","c","o","m">> >> }

\* PhishingRequest.text: at least one character
Texts == VocabularyTexts \cup UrlRuns \cup Samples

\* BatchPhishingRequest.items: at least one item, an item may be empty
BatchTexts == { <<>>, << <<"t","a","p"," ","h","e","r","e">> >>, UrlRun(MaxUrls) }

BatchInputs == UNION {[1..n -> BatchTexts] : n \in 1..MaxBatch}

ScanTypes == {"email", "sms", "url", "auto"}

\* the models the detector may have loaded
MlModels ==
  { NoModel, Model("raises", <<>>, 0), Model("returns", <<>>, 50), Model("returns", <<>>, 100) }

TransformerModels ==
  { NoModel, Model("raises", <<>>, 0),
    Model("returns", <<"P","H","I","S","H","I","N","G">>, 100), Model("returns", <<"l","e","g","i","t">>, 100) }

\* the str hash seed of a process decides the iteration order of its sets
Seeds == {0, 1}

\* the characters of a text
Chars(text) == join(text, <<" ">>)

\* batch_phishing_scan: result_dict['input']
InputOf(item) ==
  IF TextLen(item) > 100 THEN SubSeq(Chars(item), 1, 100) \o <<".",".",".">> ELSE Chars(item)

\* batch_phishing_scan: result_dict = result.to_dict(); result_dict['input'] = ...
result_dict(res, item) == ("input" :> InputOf(item)) @@ res

\* BatchLoop putting each result in front of the earlier ones
RECURSIVE BatchLoop_prepending(_, _, _, _, _, _, _)
BatchLoop_prepending(items, results, runs, scanType, mlModel, trModel, seed) ==
  IF Len(items) = 0 THEN [results |-> results, runs |-> runs, raised |-> FALSE]
  ELSE CHOOSE out \in
         { IF run.raised
           THEN [results |-> results, runs |-> Append(runs, run), raised |-> TRUE]
           ELSE BatchLoop_prepending(Tail(items),
                          <<result_dict(run.result, Head(items))>> \o results,
                          Append(runs, run), scanType, mlModel, trModel, seed)
           : run \in {detect(Head(items), scanType, mlModel, trModel, seed)} } : TRUE

\* batch_phishing_scan: the loop over request.items; an exception ends it.
\* runs are the outcomes of the detect calls made
RECURSIVE BatchLoop(_, _, _, _, _, _, _)
BatchLoop(items, results, runs, scanType, mlModel, trModel, seed) ==
  IF Len(items) = 0 THEN [results |-> results, runs |-> runs, raised |-> FALSE]
  ELSE \* one evaluation of detect per item
       CHOOSE out \in
         { IF run.raised
           THEN [results |-> results, runs |-> Append(runs, run), raised |-> TRUE]
           ELSE BatchLoop(Tail(items), Append(results, result_dict(run.result, Head(items))),
                          Append(runs, run), scanType, mlModel, trModel, seed)
           : run \in {detect(Head(items), scanType, mlModel, trModel, seed)} } : TRUE

\* batch_phishing_scan: threat_levels, the number of results per level
threat_levels(results) ==
  [ level \in {results[i].threat_level : i \in DOMAIN results} |->
      Cardinality({i \in DOMAIN results : results[i].threat_level = level}) ]

\* batch_phishing_scan: the 200 response (the timestamp is left out)
BatchResponse(results) ==
  [ status |-> 200,
    results |-> results,
    summary |-> [ total |-> Len(results),
                  phishing_detected |->
                    Cardinality({i \in DOMAIN results : results[i].is_phishing}),
                  safe |->
                    Len(results) - Cardinality({i \in DOMAIN results : results[i].is_phishing}),
                  threat_levels |-> threat_levels(results) ] ]

\* the response for the loop as it ended, and the detect calls made for it
Responded(loop) ==
  [ response |-> IF loop.raised THEN [status |-> 500] ELSE BatchResponse(loop.results),
    runs |-> loop.runs ]

batch_phishing_scan(items, scanType, mlModel, trModel, seed) ==
  Responded(BatchLoop(items, <<>>, <<>>, scanType, mlModel, trModel, seed))

Init ==
  /\ \/ req_text \in Texts /\ req_items = <<>>
     \/ req_text = <<>> /\ req_items \in BatchInputs
  /\ req_scan_type \in ScanTypes
  /\ ml_model \in MlModels
  /\ transformer_model \in TransformerModels
  /\ hash_seed \in Seeds
  /\ result = None
  /\ last_calls = <<>>
  /\ raised = FALSE
  /\ batch_response = None
  /\ threads = <<>>
  /\ call = None
  /\ ret = None
  /\ registry = NewRegistry
  /\ clock = 0
  /\ scheduler = NewScheduler

\* predict_phishing: phishing_detector.detect(request.text, request.scan_type)
Detect ==
  /\ Len(req_text) >= 1
  /\ \E run \in {detect(req_text, req_scan_type, ml_model, transformer_model, hash_seed)} :
        /\ result' = run.result
        /\ last_calls' = run.calls
        /\ raised' = run.raised
  /\ UNCHANGED <<registry, clock, scheduler, req_text, req_scan_type, req_items, ml_model, transformer_model,
                 hash_seed, batch_response, threads, call, ret>>

\* batch_phishing_scan: every item goes through detect, in order
BatchScan ==
  /\ Len(req_items) >= 1
  /\ \E scan \in {batch_phishing_scan(req_items, req_scan_type, ml_model,
                                       transformer_model, hash_seed)} :
        LET n == Len(scan.runs)
        IN  /\ batch_response' = scan.response
            /\ result' = scan.runs[n].result
            /\ last_calls' = scan.runs[n].calls
            /\ raised' = scan.runs[n].raised
  /\ UNCHANGED <<registry, clock, scheduler, req_text, req_scan_type, req_items, ml_model, transformer_model, hash_seed,
                 threads, call, ret>>

\* the service process is started again: the same models are loaded, the
\* hash seed is drawn anew
Restart ==
  /\ hash_seed' \in Seeds \ {hash_seed}
  /\ UNCHANGED <<registry, clock, scheduler, req_text, req_scan_type, req_items, ml_model, transformer_model,
                 result, last_calls, raised, batch_response, threads, call, ret>>

Next == Detect \/ BatchScan \/ Restart

Spec == Init /\ [][Next]_vars

(***************************************************************************)
(* Concurrent detect calls on the one detector.  A call goes through the   *)
(* statements of detect in order; between two statements of one call any   *)
(* statement of another call may run.  A call keeps what it computed in    *)
(* its locals (s) and reads self.ml_model and self.transformer_model when  *)
(* a statement uses them.                                                  *)
(***************************************************************************)
\* bound of the model: the number of threads
MaxThreads == 2

Threads == 1..MaxThreads

\* the texts the concurrent calls are made with
ConcurrentTexts ==
  { << <<"H","i">> >>,
    ScenarioText,
    << <<"p","a","y","p","a","l">>, <<"a","m","a","z","o","n">>, <<"h","t","t","p",":","/","/","p","a","y","p","a","1","-","v","e","r","i","f","y",".","t","k","/","l","o","g","i","n">> >> }

\* a call that has not started
Idle(text, scanType) == [pc |-> "idle", text |-> text, scan_type |-> scanType, s |-> None, out |-> None]

\* model_after_call for a method whose except clause drops the handle of a
\* model whose call raised
model_dropped_on_failure(model, outcome) ==
  IF model.kind = "raises" /\ outcome.calls # <<>> THEN NoModel ELSE model

\* self.ml_model / self.transformer_model after a detection method has used
\* it: no method of detect assigns an attribute of the detector
model_after_call(model, outcome) == model

\* the locals of a call with the detector's handles as they are now
Seen(s, mlModel, trModel) == [s EXCEPT !.mlModel = mlModel, !.trModel = trModel]

\* a call at statement pc with locals s
At(th, pc, s) == [th EXCEPT !.pc = pc, !.s = s]

\* a call that has returned (or raised) out
Done(th, out) == [th EXCEPT !.pc = "done", !.out = out]

\* detect, lines 465-475
Begun(th, mlModel, trModel, seed) ==
  IF is_too_short(th.text)
  THEN Done(th, [result |-> _empty_result, calls |-> <<"_empty_result">>, raised |-> FALSE])
  ELSE At(th, "scanned", Scanned(strip(th.text), th.scan_type, mlModel, trModel, seed))

InitConcurrent ==
  /\ threads \in [Threads -> {Idle(text, "auto") : text \in ConcurrentTexts}]
  /\ ml_model \in MlModels
  /\ transformer_model \in TransformerModels
  /\ hash_seed \in Seeds
  /\ req_text = <<>>
  /\ req_items = <<>>
  /\ req_scan_type = "auto"
  /\ result = None
  /\ last_calls = <<>>
  /\ raised = FALSE
  /\ batch_response = None
  /\ call = None
  /\ ret = None
  /\ registry = NewRegistry
  /\ clock = 0
  /\ scheduler = NewScheduler

\* detect, lines 465-475, in thread t
Begin(t) ==
  /\ threads[t].pc = "idle"
  /\ threads' = [threads EXCEPT ![t] = Begun(threads[t], ml_model, transformer_model, hash_seed)]
  /\ UNCHANGED <<registry, clock, scheduler, req_text, req_scan_type, req_items, ml_model, transformer_model, hash_seed,
                 result, last_calls, raised, batch_response, call, ret>>

\* detect, lines 478-482, in thread t
RunDetection(t) ==
  /\ threads[t].pc = "scanned"
  /\ \E d \in {Detected(Seen(threads[t].s, ml_model, transformer_model))} :
        /\ threads' = [threads EXCEPT ![t] = At(threads[t], "detected", d)]
        /\ ml_model' = model_after_call(ml_model, d.ml)
        /\ transformer_model' = model_after_call(transformer_model, d.tr)
  /\ UNCHANGED <<registry, clock, scheduler, req_text, req_scan_type, req_items, hash_seed,
                 result, last_calls, raised, batch_response, call, ret>>

\* detect, lines 485-496, in thread t
Score(t) ==
  /\ threads[t].pc = "detected"
  /\ ~(threads[t].s.ml.escaped \/ threads[t].s.tr.escaped)
  /\ threads' = [threads EXCEPT ![t] =
                   At(threads[t], "scored", Scored(Seen(threads[t].s, ml_model, transformer_model)))]
  /\ UNCHANGED <<registry, clock, scheduler, req_text, req_scan_type, req_items, ml_model, transformer_model, hash_seed,
                 result, last_calls, raised, batch_response, call, ret>>

\* detect, lines 499-516, in thread t
Decide(t) ==
  /\ threads[t].pc = "scored"
  /\ threads' = [threads EXCEPT ![t] = At(threads[t], "decided", Decided(threads[t].s))]
  /\ UNCHANGED <<registry, clock, scheduler, req_text, req_scan_type, req_items, ml_model, transformer_model, hash_seed,
                 result, last_calls, raised, batch_response, call, ret>>

\* detect, lines 519-544, in thread t; an exception that left a detection
\* method leaves detect
Return(t) ==
  /\ \/ threads[t].pc = "decided"
     \/ threads[t].pc = "detected" /\ (threads[t].s.ml.escaped \/ threads[t].s.tr.escaped)
  /\ threads' = [threads EXCEPT ![t] = Done(threads[t], Completed(threads[t].s))]
  /\ UNCHANGED <<registry, clock, scheduler, req_text, req_scan_type, req_items, ml_model, transformer_model, hash_seed,
                 result, last_calls, raised, batch_response, call, ret>>

NextConcurrent ==
  \E t \in Threads : Begin(t) \/ RunDetection(t) \/ Score(t) \/ Decide(t) \/ Return(t)

SpecConcurrent == InitConcurrent /\ [][NextConcurrent]_vars

(***************************************************************************)
(* One detect call, statement by statement: the locals of the call are     *)
(* part of the state after each statement.                                 *)
(***************************************************************************)
\* a message with five indicators and no URL
ManyIndicatorsText ==
  << <<"v","e","r","i","f","y"," ","y","o","u","r"," ","a","c","c","o","u","n","t">>, <<"e","n","t","e","r"," ","y","o","u","r"," ","p","a","s","s","w","o","r","d">>, <<"$","1",",","0","0","0",",","0","0","0">>, <<"c","l","i","c","k"," ","h","e","r","e","!">>, <<"t","a","p"," ","h","e","r","e">> >>

\* the texts of the call
StepTexts == Samples \cup UrlRuns \cup { << <<"t","a","p"," ","h","e","r","e">> >>, ManyIndicatorsText }

InitSteps ==
  /\ threads \in [{1} -> {Idle(text, scanType) : text \in StepTexts, scanType \in ScanTypes}]
  /\ ml_model \in MlModels
  /\ transformer_model \in TransformerModels
  /\ hash_seed \in Seeds
  /\ req_text = <<>>
  /\ req_items = <<>>
  /\ req_scan_type = "auto"
  /\ result = None
  /\ last_calls = <<>>
  /\ raised = FALSE
  /\ batch_response = None
  /\ call = None
  /\ ret = None
  /\ registry = NewRegistry
  /\ clock = 0
  /\ scheduler = NewScheduler

NextSteps == Begin(1) \/ RunDetection(1) \/ Score(1) \/ Decide(1) \/ Return(1)

SpecSteps == InitSteps /\ [][NextSteps]_vars

(***************************************************************************)
(* The methods of the detector called on their own: a call is drawn with   *)
(* its arguments, the method runs, and what it returns is kept.            *)
(***************************************************************************)
\* bound of the model: the greatest number of analyzed URLs given to
\* _ensemble_score
MaxUrlResults == 2

\* rule scores around the values _ensemble_score compares the rule score with
RuleScores == {0, 15, 16, 20, 21, 25, 26, 35, 36, 40, 41, 50, 51, 100}

\* the ML model handles, with the probabilities around 0.5 and 0.6
MlHandles == { NoModel, Model("returns", <<>>, 50), Model("returns", <<>>, 60), Model("returns", <<>>, 61) }

\* the transformer handles, with the scores around 0.5, 0.6 and 0.7
TransformerHandles ==
  { NoModel, Model("returns", <<"s","p","a","m">>, 50), Model("returns", <<"s","p","a","m">>, 60),
    Model("returns", <<"s","p","a","m">>, 61), Model("returns", <<"s","p","a","m">>, 70), Model("returns", <<"l","e","g","i","t">>, 29) }

\* a URLAnalysisResult with the given sum of check scores
UrlResultOf(raw) ==
  [url |-> <<"h","t","t","p",":","/","/","x">>, is_suspicious |-> raw >= URL_SUSPICIOUS_THRESHOLD, score |-> Min(raw, 100), reasons |-> <<>>]

\* analyzed URLs with scores around 0.2, 0.25 and 0.35
UrlResultLists ==
  UNION {[1..n -> {UrlResultOf(raw) : raw \in {0, 21, 26, 36}}] : n \in 0..MaxUrlResults}

\* the BrandImpersonation values _detect_brand_impersonation returns
BrandResults ==
  { BrandImpersonation(FALSE, None, 0), BrandImpersonation(FALSE, None, 20),
    BrandImpersonation(TRUE, <<"p","a","y","p","a","l">>, 60), BrandImpersonation(TRUE, <<"p","a","y","p","a","l">>, 75),
    BrandImpersonation(TRUE, <<"p","a","y","p","a","l">>, 90), BrandImpersonation(TRUE, <<"p","a","y","p","a","l">>, 95) }

\* a call of _ensemble_score on a detector with the given handles; the ML and
\* transformer scores are those the detection methods return for the handles
EnsembleCall(mlModel, trModel, rule_score, url_results, brand_result) ==
  [ fn |-> "_ensemble_score",
    mlModel |-> mlModel,
    trModel |-> trModel,
    ml_score |-> _ml_detection(mlModel).value,
    rule_score |-> rule_score,
    url_results |-> url_results,
    brand_result |-> brand_result,
    transformer_score |-> _transformer_detection(trModel).value ]

EnsembleCalls ==
  { EnsembleCall(m, t, r, u, b) :
      m \in MlHandles, t \in TransformerHandles, r \in RuleScores,
      u \in UrlResultLists, b \in BrandResults }

\* bound of the model: the greatest number of indicators given to
\* _determine_threat_level
MaxIndicators == 7

\* final scores around the values _determine_threat_level compares the score
\* with, in millionths
FinalScores ==
  { 0, 299999, 300000, 499999, 500000, 549999, 550000, 649999, 650000,
    699999, 700000, 799999, 800000, 1000000 }

\* n indicators without a critical keyword, and n indicators the first of
\* which has one
PlainIndicators(n) == [i \in 1..n |-> <<"S","u","s","p","i","c","i","o","u","s"," ","d","o","m","a","i","n"," ","T","L","D"," ","d","e","t","e","c","t","e","d">>]

CriticalIndicators(n) ==
  [i \in 1..n |-> IF i = 1 THEN <<"C","r","e","d","e","n","t","i","a","l","/","p","a","s","s","w","o","r","d"," ","r","e","q","u","e","s","t"," ","d","e","t","e","c","t","e","d"," ","(","1"," ","i","n","s","t","a","n","c","e","s",")">>
                  ELSE <<"S","u","s","p","i","c","i","o","u","s"," ","d","o","m","a","i","n"," ","T","L","D"," ","d","e","t","e","c","t","e","d">>]

IndicatorLists ==
  {PlainIndicators(n) : n \in 0..MaxIndicators} \cup {CriticalIndicators(n) : n \in 1..MaxIndicators}

ThreatLevelCalls ==
  { [fn |-> "_determine_threat_level", score |-> s, indicators |-> inds] :
      s \in FinalScores, inds \in IndicatorLists }

\* URLs whose brand names sit in the subdomain, the registered domain, both or neither
AnalyzedUrls ==
  { <<"h","t","t","p","s",":","/","/","t","e","a","m","s",".","m","i","c","r","o","s","o","f","t",".","c","o","m">>, <<"h","t","t","p","s",":","/","/","p","a","y","p","a","l",".","p","a","y","p","a","l",".","c","o","m">>,
    <<"h","t","t","p",":","/","/","p","a","y","p","a","l",".","e","x","a","m","p","l","e",".","c","o","m">>, <<"h","t","t","p","s",":","/","/","a","m","a","z","o","n",".","e","x","a","m","p","l","e",".","c","o","m">>,
    <<"h","t","t","p","s",":","/","/","a","p","p","l","e",".","i","c","l","o","u","d",".","c","o","m">>, <<"h","t","t","p","s",":","/","/","w","w","w",".","p","a","y","p","a","l",".","c","o","m">>,
    <<"h","t","t","p","s",":","/","/","w","w","w",".","m","i","c","r","o","s","o","f","t",".","c","o","m">>, <<"h","t","t","p","s",":","/","/","w","w","w",".","e","x","a","m","p","l","e",".","c","o","m">>,
    <<"h","t","t","p",":","/","/","p","a","y","p","a","l",".","e","x","a","m","p","l","e",".","t","k">>, <<"h","t","t","p",":","/","/","p","a","y","p","a","1",".","c","o","m">> }

AnalyzeCalls ==
  { [fn |-> "_analyze_urls", urls |-> <<u>>] : u \in AnalyzedUrls }

\* the number of leading brands of KNOWN_BRANDS whose misspellings are called with
MaxEditBrands == 3

\* the most letters of a brand replaced by their digits in one label
MaxReplaced == 2

EditBrands == { KNOWN_BRANDS[i] : i \in 1..MaxEditBrands }

\* the characters a label gets by substitution or insertion
EditAlphabet == { "x", "1" }

Substituted(b) == { [b EXCEPT ![i] = c] : i \in DOMAIN b, c \in EditAlphabet } \ { b }

Inserted(b) ==
  { SubSeq(b, 1, i) \o <<c>> \o SubSeq(b, i + 1, Len(b)) : i \in 0..Len(b), c \in EditAlphabet }

Deleted(b) == { SubSeq(b, 1, i - 1) \o SubSeq(b, i + 1, Len(b)) : i \in DOMAIN b }

\* the digit the table gives for a letter, or the letter itself
LeetDigit(c) ==
  CASE c = "o" -> "0" [] c = "l" -> "1" [] c = "i" -> "1" [] c = "e" -> "3"
    [] c = "a" -> "4" [] c = "s" -> "5" [] c = "t" -> "7" [] c = "b" -> "8"
    [] OTHER -> c

\* b with the letters at the positions ps replaced by their digits
Replaced(b, ps) == [i \in DOMAIN b |-> IF i \in ps THEN LeetDigit(b[i]) ELSE b[i]]

LeetVariants(b) ==
  { Replaced(b, ps) : ps \in { q \in SUBSET { i \in DOMAIN b : LeetDigit(b[i]) # b[i] } :
                                 Cardinality(q) \in 1..MaxReplaced } }

MisspelledLabels ==
  UNION { Substituted(b) \cup Inserted(b) \cup Deleted(b) \cup LeetVariants(b) : b \in EditBrands }

MisspellingCalls ==
  { [fn |-> "_detect_brand_misspelling", domain |-> d] : d \in MisspelledLabels \cup EditBrands }

\* the most safe-context tokens in one text
MaxSafe == 4

SafeTokens ==
  << <<"t","h","a","n","k"," ","y","o","u"," ","f","o","r">>, <<"o","r","d","e","r"," ","c","o","n","f","i","r","m","e","d">>, <<"t","r","a","c","k","i","n","g"," ","n","u","m","b","e","r">>, <<"i","f"," ","t","h","i","s"," ","w","a","s"," ","y","o","u">>,
     <<"h","t","t","p","s",":","/","/","w","w","w",".","p","a","y","p","a","l",".","c","o","m">>, <<"h","t","t","p","s",":","/","/","w","w","w",".","m","i","c","r","o","s","o","f","t",".","c","o","m">> >>

\* the first n safe-context tokens
SafeRun(n) == SubSeq(SafeTokens, 1, Min(n, Len(SafeTokens)))

IndicatorRuns ==
  { <<>>, << <<"v","e","r","i","f","y"," ","y","o","u","r"," ","a","c","c","o","u","n","t">> >>,
    << <<"v","e","r","i","f","y"," ","y","o","u","r"," ","a","c","c","o","u","n","t">>, <<"e","n","t","e","r"," ","y","o","u","r"," ","p","a","s","s","w","o","r","d">>, <<"t","a","p"," ","h","e","r","e">>, <<"$","1",",","0","0","0",",","0","0","0">> >> }

\* texts with and without indicators, safe-context phrases and a URL under a suspicious TLD
RuleTexts ==
  ({ a \o SafeRun(n) \o u : a \in IndicatorRuns, n \in 0..MaxSafe,
                            u \in { <<>>, << <<"h","t","t","p",":","/","/","p","a","y","p","a","1","-","v","e","r","i","f","y",".","t","k","/","l","o","g","i","n">> >> } } \ { <<>> })
    \cup Samples

RuleCalls == { [fn |-> "_rule_based_detection", text |-> t] : t \in RuleTexts }

MethodCalls ==
  EnsembleCalls \cup ThreatLevelCalls \cup AnalyzeCalls \cup MisspellingCalls \cup RuleCalls

InitMethods ==
  /\ call \in MethodCalls
  /\ ret = None
  /\ registry = NewRegistry
  /\ clock = 0
  /\ scheduler = NewScheduler
  /\ threads = <<>>
  /\ ml_model = NoModel
  /\ transformer_model = NoModel
  /\ hash_seed = 0
  /\ req_text = <<>>
  /\ req_items = <<>>
  /\ req_scan_type = "auto"
  /\ result = None
  /\ last_calls = <<>>
  /\ raised = FALSE
  /\ batch_response = None

\* self._ensemble_score(ml_score, rule_score, url_results, brand_result, transformer_score):
\* what it returns and its locals weights, score before and after the boosting
\* and indicator_count
CallEnsembleScore ==
  /\ call.fn = "_ensemble_score"
  /\ ret = None
  /\ ret' = [value |-> _ensemble_score(call.mlModel, call.trModel, call.ml_score,
                                       call.rule_score, call.url_results, call.brand_result,
                                       call.transformer_score),
              weights |-> weights_of(call.mlModel, call.trModel, call.ml_score,
                                     call.rule_score, call.url_results,
                                     call.transformer_score),
              base |-> base_score_of(call.mlModel, call.trModel, call.ml_score,
                                     call.rule_score, call.url_results, call.brand_result,
                                     call.transformer_score),
              indicator_count |-> indicator_count_of(call.mlModel, call.trModel, call.ml_score,
                                                     call.rule_score, call.url_results,
                                                     call.brand_result, call.transformer_score),
              boosted |-> boosted_score_of(call.mlModel, call.trModel, call.ml_score,
                                           call.rule_score, call.url_results, call.brand_result,
                                           call.transformer_score)]
  /\ UNCHANGED <<registry, clock, scheduler, req_text, req_scan_type, req_items, ml_model, transformer_model, hash_seed,
                 result, last_calls, raised, batch_response, threads, call>>

\* self._determine_threat_level(final_score, indicators)
CallDetermineThreatLevel ==
  /\ call.fn = "_determine_threat_level"
  /\ ret = None
  /\ ret' = [value |-> _determine_threat_level(call.score, call.indicators)]
  /\ UNCHANGED <<registry, clock, scheduler, req_text, req_scan_type, req_items, ml_model, transformer_model, hash_seed,
                 result, last_calls, raised, batch_response, threads, call>>

\* self._analyze_urls(urls): one URLAnalysisResult for each URL, with the host parts
\* tldextract gave it
CallAnalyzeUrls ==
  /\ call.fn = "_analyze_urls"
  /\ ret = None
  /\ ret' = [value |-> [i \in DOMAIN call.urls |-> AnalyzeUrl(call.urls[i])],
              extracted |-> [i \in DOMAIN call.urls |-> tldextract(call.urls[i])]]
  /\ UNCHANGED <<registry, clock, scheduler, req_text, req_scan_type, req_items, ml_model, transformer_model, hash_seed,
                 result, last_calls, raised, batch_response, threads, call>>

\* self._detect_brand_misspelling(domain)
CallDetectBrandMisspelling ==
  /\ call.fn = "_detect_brand_misspelling"
  /\ ret = None
  /\ ret' = [value |-> _detect_brand_misspelling(call.domain)]
  /\ UNCHANGED <<registry, clock, scheduler, req_text, req_scan_type, req_items, ml_model, transformer_model, hash_seed,
                 result, last_calls, raised, batch_response, threads, call>>

\* self._rule_based_detection(text): what it returns, its local safe_context_score
\* and the value of score before the reduction is applied
CallRuleBasedDetection ==
  /\ call.fn = "_rule_based_detection"
  /\ ret = None
  /\ ret' = [value |-> _rule_based_detection(call.text),
              safe_context_score |-> safe_context_score(InfoOf(call.text)),
              score |-> score_before_reduction(call.text)]
  /\ UNCHANGED <<registry, clock, scheduler, req_text, req_scan_type, req_items, ml_model, transformer_model, hash_seed,
                 result, last_calls, raised, batch_response, threads, call>>

NextMethods ==
  \/ CallEnsembleScore
  \/ CallDetermineThreatLevel
  \/ CallAnalyzeUrls
  \/ CallDetectBrandMisspelling
  \/ CallRuleBasedDetection

SpecMethods == InitMethods /\ [][NextMethods]_vars
(***************************************************************************)
(* The properties                                                          *)
(***************************************************************************)
\* the batch response carries results
BatchAnswered == batch_response # None /\ batch_response.status = 200

\* P holds of every result handed out: by the latest detect call and in the
\* batch response
EveryResult(P(_)) ==
  /\ result # None => P(result)
  /\ BatchAnswered => \A i \in DOMAIN batch_response.results : P(batch_response.results[i])

\* the text given to the latest detect call
LastText == IF Len(req_items) >= 1 THEN req_items[Len(req_items)] ELSE req_text

\* the characters of s without the blanks at both ends
RECURSIVE StripChars(_)
StripChars(s) ==
  IF Len(s) > 0 /\ s[1] \in SpaceChars THEN StripChars(Tail(s))
  ELSE IF Len(s) > 0 /\ s[Len(s)] \in SpaceChars THEN StripChars(SubSeq(s, 1, Len(s) - 1))
  ELSE s

\* the text is empty, blank, or has fewer than 3 characters between its blanks
ShortText(text) == Len(StripChars(Chars(text))) < 3

\* the host of a URL written with http:// or https://, None for other URLs
HostOf(url) ==
  LET start == IF startswith(url, <<"h","t","t","p","s",":","/","/">>) THEN 9
               ELSE IF startswith(url, <<"h","t","t","p",":","/","/">>) THEN 8
               ELSE 0
      ends == {i \in start..Len(url) : url[i] \in {"/", ":", "?", "#"}}
      stop == IF ends = {} THEN Len(url) + 1
              ELSE CHOOSE i \in ends : \A j \in ends : i <= j
  IN  IF start = 0 THEN None ELSE SubSeq(url, start, stop - 1)

\* four groups of one to three digits, separated by dots
DottedQuad(host) ==
  LET parts == split(host, ".")
  IN  /\ Len(parts) = 4
      /\ \A p \in DOMAIN parts :
            /\ Len(parts[p]) \in 1..3
            /\ \A k \in DOMAIN parts[p] : parts[p][k] \in DigitChars

IpReason == Reason("URL uses IP address instead of domain name", <<>>)

ShortenerReason == Reason("URL shortener detected (hides real destination)", <<>>)

\* C1: every score of every result lies in [0,1]: the confidence (millionths),
\* the rule score, the collaborator scores, the score of each analyzed URL and
\* the brand similarity (hundredths)
ScoresInRange(r) ==
  /\ r.confidence \in 0..1000000
  /\ r.details # None =>
       /\ r.details.rule_score \in 0..100
       /\ r.details.ml_score \in 0..100
       /\ r.details.transformer_score \in 0..100
  /\ \A i \in DOMAIN r.urls_analyzed : r.urls_analyzed[i].score \in 0..100
  /\ r.brand_impersonation # None => r.brand_impersonation.similarity_score \in 0..100

C1_ScoresInUnitInterval == EveryResult(ScoresInRange)

\* a result whose rule score and confidence both sit at the upper end
C1_Witness ==
  /\ result # None
  /\ result.details # None
  /\ result.details.rule_score = 100
  /\ result.confidence = 1000000
  /\ Len(result.urls_analyzed) > 0
  /\ result.brand_impersonation # None

\* C2: in every result, is_phishing false implies phishing_type NONE
NotPhishingHasTypeNone(r) == ~r.is_phishing => r.phishing_type = "NONE"

C2_NotPhishingTypeNone == EveryResult(NotPhishingHasTypeNone)

\* a text with a suspicious URL, scanned as a url, that stays below the threshold
C2_Witness ==
  /\ result # None
  /\ ~result.is_phishing
  /\ result.details # None
  /\ result.details.scan_type = "url"
  /\ \E i \in DOMAIN result.urls_analyzed : result.urls_analyzed[i].is_suspicious

\* C3: for an empty, blank or under-3-character text detect returns the safe
\* result (threat level NONE, not phishing, no indicators, no URLs analyzed)
\* and calls neither a collaborator nor a detection stage
SafeResult(r) ==
  /\ r.threat_level = "NONE"
  /\ r.is_phishing = FALSE
  /\ r.phishing_type = "NONE"
  /\ r.indicators = <<>>
  /\ r.urls_analyzed = <<>>
  /\ r.confidence = 0

C3_ShortInputSafeResult ==
  /\ (result # None /\ ShortText(LastText)) =>
        /\ SafeResult(result)
        /\ last_calls = <<"_empty_result">>
  /\ BatchAnswered =>
        \A i \in DOMAIN req_items :
           ShortText(req_items[i]) => SafeResult(batch_response.results[i])

\* a two-character text between blanks was given to a detector with both models
C3_Witness ==
  /\ result # None
  /\ req_text = << <<" "," ">>, <<"H","i">> >>
  /\ ml_model.kind = "returns"
  /\ transformer_model.kind = "returns"

\* C4: a detect call on the same text, scan type and collaborator outputs
\* returns what the call before it returned, in every field
C4_Deterministic == [][result # None => result' = result]_vars

\* the part of a batch result that detect produced
DetectPart(d) == [k \in (DOMAIN d) \ {"input"} |-> d[k]]

\* C5: a batch of n items returns n results and the i-th is what detect
\* returns for the i-th item
C5_BatchMirrorsDetect ==
  batch_response # None =>
    /\ batch_response.status = 200
    /\ Len(batch_response.results) = Len(req_items)
    /\ \E seed \in Seeds :
         \A i \in DOMAIN req_items :
            DetectPart(batch_response.results[i])
              = detect(req_items[i], req_scan_type, ml_model, transformer_model, seed).result

\* a batch of two or more items with different results
C5_Witness ==
  /\ BatchAnswered
  /\ Len(req_items) >= 2
  /\ batch_response.results[1].threat_level # batch_response.results[2].threat_level
  /\ req_items[1] # req_items[2]

\* C6: at most 5 URLs are analyzed
AtMostFiveUrls(r) == Len(r.urls_analyzed) <= 5

C6_AtMostFiveUrls == EveryResult(AtMostFiveUrls)

\* C7: an analyzed URL whose host, after http:// or https://, is a dotted IPv4
\* literal is suspicious and carries the IP-address reason
IpUrlsFlagged(r) ==
  \A i \in DOMAIN r.urls_analyzed :
     LET a == r.urls_analyzed[i]
     IN  (HostOf(a.url) # None /\ DottedQuad(HostOf(a.url))) =>
            /\ a.is_suspicious
            /\ IpReason \in Range(a.reasons)

ShortenerUrlsScored(r) ==
  \A i \in DOMAIN r.urls_analyzed :
     LET a == r.urls_analyzed[i]
     IN  (HostOf(a.url) # None /\ lower(HostOf(a.url)) \in Range(URL_SHORTENERS)) =>
            /\ ShortenerReason \in Range(a.reasons)
            /\ SHORTENER_SCORE >= 20
            /\ a.score >= 20

C8_ShortenerScore == EveryResult(ShortenerUrlsScored)

\* a URL of a shortener was analyzed
C8_Witness ==
  /\ result # None
  /\ \E i \in DOMAIN result.urls_analyzed :
        /\ HostOf(result.urls_analyzed[i].url) = <<"b","i","t",".","l","y">>
        /\ result.urls_analyzed[i].score >= 20

\* detect has run on "Win $1,000,000 now, click here!" without collaborators
ScenarioRan ==
  /\ result # None
  /\ req_text = ScenarioText
  /\ ml_model = NoModel
  /\ transformer_model = NoModel

\* the weights the ensemble used for the latest result
WeightsUsed ==
  SelectWeights(ml_available(ml_model, result.details.ml_score),
                transformer_available(transformer_model, result.details.transformer_score),
                result.details.url_count > 0,
                result.details.rule_score,
                IF Len(result.urls_analyzed) > 0
                THEN MaxSeq([i \in DOMAIN result.urls_analyzed |->
                               result.urls_analyzed[i].score])
                ELSE 0)

Indicates(prefix) == \E i \in DOMAIN result.indicators : startswith(result.indicators[i], prefix)

\* C9: the scenario text takes the rule-only no-URL weights, shows urgency,
\* financial and action indicators, and scores above 0.45
C9_ScenarioAboveThreshold ==
  ScenarioRan =>
    /\ WeightsUsed = Weights(0, 75, 0, 25, 0)
    /\ Indicates(<<"U","r","g","e","n","c","y","/","p","r","e","s","s","u","r","e"," ","t","a","c","t","i","c","s"," ","d","e","t","e","c","t","e","d">>)
    /\ Indicates(<<"F","i","n","a","n","c","i","a","l","/","p","a","y","m","e","n","t"," ","k","e","y","w","o","r","d","s"," ","d","e","t","e","c","t","e","d">>)
    /\ Indicates(<<"S","u","s","p","i","c","i","o","u","s"," ","a","c","t","i","o","n"," ","r","e","q","u","e","s","t","s"," ","d","e","t","e","c","t","e","d">>)
    /\ result.confidence > 450000

\* what detect returns for the scenario text: the rule-only no-URL weights, the
\* financial, action and known-phrase indicators and no urgency indicator,
\* rule score 0.30, final score 0.225, not reported as phishing
ScenarioOutcome ==
  ScenarioRan =>
    /\ WeightsUsed = Weights(0, 75, 0, 25, 0)
    /\ Range(result.indicators) =
         { <<"F","i","n","a","n","c","i","a","l","/","p","a","y","m","e","n","t"," ","k","e","y","w","o","r","d","s"," ","d","e","t","e","c","t","e","d"," ","(","1"," ","i","n","s","t","a","n","c","e","s",")">>,
           <<"S","u","s","p","i","c","i","o","u","s"," ","a","c","t","i","o","n"," ","r","e","q","u","e","s","t","s"," ","d","e","t","e","c","t","e","d"," ","(","1"," ","i","n","s","t","a","n","c","e","s",")">>,
           <<"K","n","o","w","n"," ","p","h","i","s","h","i","n","g"," ","p","h","r","a","s","e","s"," ","d","e","t","e","c","t","e","d"," ","(","1",")">> }
    /\ result.details.rule_score = 30
    /\ result.confidence = 225000
    /\ ~result.is_phishing

\* the scenario has run, under the scan type detected for it
C9_Witness == ScenarioRan /\ req_scan_type = "auto" /\ result.threat_level = "MEDIUM"

\* the number of calls made to a collaborator by the latest detect call
CallsTo(name) == Cardinality({i \in DOMAIN last_calls : last_calls[i] = name})

\* the model as detect sees it when it is not there
Absent(model) == IF model.kind = "raises" THEN NoModel ELSE model

\* C10: when a collaborator call raises, no exception leaves detect, the
\* collaborator was called once, and the result, the weights and the final
\* score are those of a detector without that collaborator
C10_RaisingCollaboratorIsAbsent ==
  (last_calls # <<>> /\ ~ShortText(LastText)) =>
     /\ ml_model.kind = "raises" => CallsTo("ml_model.predict_proba") = 1
     /\ transformer_model.kind = "raises" => CallsTo("transformer_model") = 1
     /\ (ml_model.kind = "raises" \/ transformer_model.kind = "raises") =>
          /\ ~raised
          /\ result # None
          /\ ~ml_available(ml_model, result.details.ml_score)
               \/ ml_model.kind # "raises"
          /\ ~transformer_available(transformer_model, result.details.transformer_score)
               \/ transformer_model.kind # "raises"
          /\ \E seed \in Seeds :
               result = detect(LastText, req_scan_type, Absent(ml_model),
                               Absent(transformer_model), seed).result

\* the ML model raised while the transformer answered, on a text with a URL
C10_Witness ==
  /\ result # None
  /\ ~ShortText(LastText)
  /\ ml_model.kind = "raises"
  /\ transformer_model.kind = "returns"
  /\ CallsTo("ml_model.predict_proba") = 1
  /\ Len(result.urls_analyzed) > 0
  /\ result.is_phishing

\* C11: under every interleaving of the statements of concurrent detect calls,
\* no step changes the detector's model handles, and every call that has
\* returned returned what detect returns for its text when run alone
C11_ConcurrentCallsIndependent ==
  [][ /\ ml_model' = ml_model
      /\ transformer_model' = transformer_model
      /\ \A t \in DOMAIN threads' :
            threads'[t].pc = "done" =>
              threads'[t].out = detect(threads'[t].text, threads'[t].scan_type,
                                       ml_model, transformer_model, hash_seed) ]_vars

\* one call has returned a phishing verdict while another call, on another
\* text, is between its detection methods and its scoring, on a detector whose
\* ML model raises
C11_Witness ==
  /\ DOMAIN threads = Threads
  /\ ml_model.kind = "raises"
  /\ transformer_model.kind = "returns"
  /\ threads[1].pc = "done"
  /\ threads[1].out.result.is_phishing
  /\ threads[2].pc = "detected"
  /\ threads[2].text # threads[1].text

\* what a finished call of the named method returned
Finished(fn) == ret # None /\ call.fn = fn

\* ml + rule + url + brand + transformer of a weights dict, in hundredths
WeightSum(weights) ==
  weights.ml + weights.rule + weights.url + weights.brand + weights.transformer

\* C12: whichever branch of the weight selection a call of _ensemble_score
\* takes (ML available or not, transformer available or not, URLs present or
\* not, the rule-only URL-dominated sub-branch included), the five weights
\* ml, rule, url, brand and transformer sum to exactly 1.0.
C12_WeightsSumToOne ==
  Finished("_ensemble_score") => WeightSum(ret.weights) = 100

\* a call took the rule-only URL-dominated sub-branch
C12_Witness ==
  /\ Finished("_ensemble_score")
  /\ call.mlModel = NoModel
  /\ call.trModel = NoModel
  /\ call.rule_score < 25
  /\ url_score_of(call.url_results) > 35
  /\ ret.weights = Weights(0, 15, 65, 20, 0)

\* the brands brand_pattern finds in the text of the latest detect call and
\* its URLs
BrandsFound == brand_matches(strip(LastText) \o extract_urls(strip(LastText)))

\* the most counted of the brands found, the first of them in the order of
\* KNOWN_BRANDS when several have the greatest count
FirstInListOrder == FirstMostCounted(KNOWN_BRANDS, BrandsFound)

\* C13: a result that reports a brand reports the one brand with the highest
\* match count in text and URLs, and among brands that tie on the count the
\* one that comes first in KNOWN_BRANDS.
C13_TieBrokenByListOrder ==
  (result # None /\ result.brand_impersonation # None) =>
     result.brand_impersonation.brand = FirstInListOrder

\* two brands are found once each and one of them is reported
C13_Witness ==
  /\ result # None
  /\ result.brand_impersonation # None
  /\ BrandsFound = << <<"a","m","a","z","o","n">>, <<"p","a","y","p","a","l">> >>
  /\ result.brand_impersonation.brand \in { <<"a","m","a","z","o","n">>, <<"p","a","y","p","a","l">> }

\* the five recommendation strings, by threat level
RecommendationTable ==
  [ NONE |-> "This message appears to be safe. However, always verify sender identity for sensitive requests.",
    LOW |-> "Some suspicious elements detected. Verify the sender before taking any action.",
    MEDIUM |-> "This message contains suspicious content. Do not click links or provide personal information. Verify directly with the organization.",
    HIGH |-> "This message is likely a phishing attempt. Do not respond, click links, or provide any information. Report and delete.",
    CRITICAL |-> "DANGER: This is a phishing attack. Do not interact with this message in any way. Report to your IT department and delete immediately." ]

\* the recommendation of r is the string of the table for its threat level
RecommendationLookedUp(r) == r.recommendation = RecommendationTable[r.threat_level]

\* C14 as stated: the recommendation of every result detect returns, the
\* result for empty or too-short input included, is the one of five fixed
\* strings that belongs to its threat level, so that two results with the
\* same threat level carry the same recommendation.
C14_RecommendationByLevelAlone == EveryResult(RecommendationLookedUp)

\* C14, amended: the recommendation of a result is the string of the table
\* for its threat level when the input is not too short, and the fixed
\* string "No suspicious content detected." when the input is empty or too
\* short.
C14_RecommendationByLevelUnlessShort ==
  result # None =>
     result.recommendation =
        IF is_too_short(LastText) THEN "No suspicious content detected."
        ELSE RecommendationTable[result.threat_level]

\* a result with threat level NONE for an input that is not too short
C14_Witness ==
  /\ result # None
  /\ ~is_too_short(LastText)
  /\ result.threat_level = "NONE"
  /\ result.recommendation = RecommendationTable["NONE"]

\* https://www.b.com for the brands b of official_domains that have b.com
\* among their official domains
OfficialBareUrls ==
  { <<"h","t","t","p","s",":","/","/","w","w","w",".">> \o official_domains[k][1] \o <<".","c","o","m">> :
      k \in {j \in DOMAIN official_domains :
               (official_domains[j][1] \o <<".","c","o","m">>) \in Range(official_domains[j][2])} }

\* C15: the bare official URL https://www.b.com of a known brand b is
\* analyzed as not suspicious, and the URL-shortener reason is attached to an
\* analyzed URL only when its host is a member of the shortener list.
OfficialUrlsClean(r) ==
  \A i \in DOMAIN r.urls_analyzed :
     /\ r.urls_analyzed[i].url \in OfficialBareUrls => ~r.urls_analyzed[i].is_suspicious
     /\ ShortenerReason \in Range(r.urls_analyzed[i].reasons) =>
           lower(HostOf(r.urls_analyzed[i].url)) \in Range(URL_SHORTENERS)

C15_OfficialUrlNotSuspicious == EveryResult(OfficialUrlsClean)

\* the official URL of a brand was analyzed
C15_Witness ==
  /\ result # None
  /\ Len(result.urls_analyzed) = 1
  /\ result.urls_analyzed[1].url = <<"h","t","t","p","s",":","/","/","w","w","w",".","m","i","c","r","o","s","o","f","t",".","c","o","m">>
  /\ <<"h","t","t","p","s",":","/","/","w","w","w",".","m","i","c","r","o","s","o","f","t",".","c","o","m">> \in OfficialBareUrls

\* the threat levels in rising order
ThreatLevelOrder == << "NONE", "LOW", "MEDIUM", "HIGH", "CRITICAL" >>

\* the tier of a score: <0.3 NONE, <0.5 LOW, <0.65 MEDIUM, <0.8 HIGH, else CRITICAL
ScoreTier(score) ==
  IF score < 300000 THEN 1
  ELSE IF score < 500000 THEN 2
  ELSE IF score < 650000 THEN 3
  ELSE IF score < 800000 THEN 4
  ELSE 5

\* the tier of an indicator count: 0 NONE, 1-2 LOW, 3 MEDIUM, 4-5 HIGH, >=6 CRITICAL
CountTier(n) ==
  IF n = 0 THEN 1
  ELSE IF n <= 2 THEN 2
  ELSE IF n = 3 THEN 3
  ELSE IF n <= 5 THEN 4
  ELSE 5

\* C16: when no indicator contains a critical keyword, the threat level is
\* the higher of the score tier and the indicator-count tier, for every score
\* and every indicator count.
C16_ThreatLevelIsMaxOfTiers ==
  (Finished("_determine_threat_level") /\ ~has_critical(call.indicators)) =>
     ret.value = ThreatLevelOrder[Max(ScoreTier(call.score), CountTier(Len(call.indicators)))]

\* four indicators without a critical keyword lift a score below 0.3 to HIGH
C16_Witness ==
  /\ Finished("_determine_threat_level")
  /\ ~has_critical(call.indicators)
  /\ call.score < 300000
  /\ Len(call.indicators) = 4
  /\ ret.value = "HIGH"

\* the URLs of the text of the latest detect call
UrlsFound == extract_urls(strip(LastText))

\* the brands found most often
MostCounted ==
  {b \in Range(BrandsFound) :
     \A c \in Range(BrandsFound) : CountOf(BrandsFound, c) <= CountOf(BrandsFound, b)}

\* the registrable domain of the URL, domain.suffix
RegistrableDomain(url) == lower(ExtractInfo[url].domain \o <<".">> \o ExtractInfo[url].suffix)

\* the registrable domain of the URL is an official domain of the brand
OfficialFor(url, brand) == RegistrableDomain(url) \in Range(brand_domains(brand))

\* what brand detection owes for the brand b and the URLs found
BrandOutcomeFor(r, b) ==
  IF \E i \in DOMAIN UrlsFound : ~OfficialFor(UrlsFound[i], b)
  THEN /\ r.brand_impersonation # None
       /\ r.brand_impersonation.detected
       /\ r.brand_impersonation.brand = b
       /\ r.brand_impersonation.similarity_score >= 70
  ELSE r.brand_impersonation = None

\* C17 as stated: when the text mentions a known brand, brand detection
\* reports the most mentioned brand with a similarity of at least 0.7 if the
\* registrable domain of some URL is not an official domain of that brand, and
\* reports nothing if the registrable domain of every URL is one, which is
\* the case of a text without URLs too.
C17_OfficialUrlsNotDetected ==
  (result # None /\ ~is_too_short(LastText) /\ Len(BrandsFound) > 0) =>
     \E b \in MostCounted : BrandOutcomeFor(result, b)

\* C17, amended: when the text mentions a known brand and at least one URL
\* is supplied, brand detection reports the most mentioned brand with a
\* similarity of at least 0.7 if the registrable domain of some URL is not an
\* official domain of that brand, and reports nothing if the registrable
\* domain of every URL is one.
C17_NonOfficialUrlDetected ==
  (result # None /\ ~is_too_short(LastText) /\ Len(BrandsFound) > 0 /\ Len(UrlsFound) > 0) =>
     \E b \in MostCounted : BrandOutcomeFor(result, b)

\* a brand is mentioned next to its official URL and a URL that is not
\* official, and is reported
C17_Witness ==
  /\ result # None
  /\ MostCounted = { <<"p","a","y","p","a","l">> }
  /\ \E i \in DOMAIN UrlsFound : OfficialFor(UrlsFound[i], <<"p","a","y","p","a","l">>)
  /\ \E i \in DOMAIN UrlsFound : ~OfficialFor(UrlsFound[i], <<"p","a","y","p","a","l">>)
  /\ result.brand_impersonation # None
  /\ result.brand_impersonation.similarity_score >= 70

\* the locals of the one call after the statement that decides
DecidedCall == DOMAIN threads = {1} /\ threads[1].pc = "decided"

\* the threshold by the indicator count: 0.45, 0.40 with three or more
\* indicators, 0.35 with five or more
CountThreshold(n) == IF n >= 5 THEN 350000 ELSE IF n >= 3 THEN 400000 ELSE 450000

\* scan_type is url, or a URL is present and the text is shorter than 100
\* characters, and at least one analyzed URL is suspicious
UrlCase(s) ==
  /\ s.scan_type = "url" \/ (Len(s.urls) > 0 /\ TextLen(s.text) < 100)
  /\ \E i \in DOMAIN s.url_results : s.url_results[i].is_suspicious

\* C18: is_phishing is (final score >= threshold); the threshold is 0.32 in
\* the URL case and otherwise 0.45, 0.40 with three or more indicators, 0.35
\* with five or more; it takes no other value and does not rise when one more
\* indicator is collected.
C18_ThresholdDecides ==
  DecidedCall =>
     /\ threads[1].s.threshold =
           IF UrlCase(threads[1].s) THEN 320000
           ELSE CountThreshold(Len(threads[1].s.indicators))
     /\ threads[1].s.is_phishing = (threads[1].s.final_score >= threads[1].s.threshold)
     /\ Threshold(threads[1].s.scan_type, threads[1].s.text, threads[1].s.urls,
                  threads[1].s.url_results, Append(threads[1].s.indicators, <<"x">>))
           <= threads[1].s.threshold

\* a call of scan type url on a long text with five or more indicators and a
\* suspicious URL decides with the threshold 0.32
C18_Witness ==
  /\ DecidedCall
  /\ threads[1].s.scan_type = "url"
  /\ TextLen(threads[1].s.text) >= 100
  /\ Len(threads[1].s.indicators) >= 5
  /\ threads[1].s.threshold = 320000
  /\ threads[1].s.is_phishing

\* the signals of the call that hold: ml > 0.6, rule > 0.20, url > 0.25, brand
\* detected with similarity > 0.5, transformer > 0.6
AgreeingSignals ==
  { k \in 1..5 :
      << call.mlModel.kind # "none" /\ call.ml_score > 60,
         call.rule_score > 20,
         url_score_of(call.url_results) > 25,
         call.brand_result.detected /\ call.brand_result.similarity_score > 50,
         call.trModel.kind # "none" /\ call.transformer_score > 60 >>[k] }

\* the multiplier for n agreeing signals, in hundredths
Multiplier(n) ==
  IF n >= 4 THEN 150 ELSE IF n = 3 THEN 135 ELSE IF n = 2 THEN 120 ELSE IF n = 1 THEN 115 ELSE 100

\* C19: the boosting multiplies the base weighted score by 1.15, 1.20, 1.35
\* or 1.50 when exactly 1, 2, 3 or at least 4 of the five signals hold, capped
\* at 1.0; one agreeing signal yields the 1.15 multiplier whichever it is.
C19_BoostByAgreement ==
  Finished("_ensemble_score") =>
     ret.boosted = Min((ret.base * Multiplier(Cardinality(AgreeingSignals))) \div 100, 1000000)

\* the ML score is the one agreeing signal of a call
C19_Witness ==
  /\ Finished("_ensemble_score")
  /\ AgreeingSignals = {1}
  /\ ret.base > 0

\* the score a finished call of _ensemble_score returned is at least floor
\* when cond holds
AtLeastWhen(cond, floor) == cond => ret.value >= floor

\* C20: the score the ensemble returns is never below the boosted weighted
\* score and never below an override floor that applies: 0.75 for a brand
\* detected with similarity > 0.85, 0.65 for two or more suspicious URLs, 0.65
\* for rule_score > 0.5, 0.55 for rule_score > 0.4, 0.65 for transformer > 0.7
\* with rule_score > 0.25.
C20_FloorsOnlyRaise ==
  Finished("_ensemble_score") =>
     /\ ret.value >= ret.boosted
     /\ AtLeastWhen(call.brand_result.detected /\ call.brand_result.similarity_score > 85, 750000)
     /\ AtLeastWhen(url_suspicious_count_of(call.url_results) >= 2, 650000)
     /\ AtLeastWhen(call.rule_score > 50, 650000)
     /\ AtLeastWhen(call.rule_score > 40, 550000)
     /\ AtLeastWhen(call.transformer_score > 70 /\ call.rule_score > 25, 650000)

\* the floor for two suspicious URLs applies to a boosted score above it, and
\* the score is returned as it was
C20_Witness ==
  /\ Finished("_ensemble_score")
  /\ url_suspicious_count_of(call.url_results) >= 2
  /\ ret.boosted > 650000
  /\ ret.boosted < 1000000
  /\ ret.value = ret.boosted

\* the weights of the branch for the classifiers that are loaded, whatever
\* probability they returned
WeightsForLoaded ==
  SelectWeights(call.mlModel.kind = "returns", call.trModel.kind = "returns",
                Len(call.url_results) > 0, call.rule_score, url_score_of(call.url_results))

\* C21: a loaded classifier that returns exactly 0.5 is an available signal:
\* the ensemble takes the weight branch it takes for any other probability the
\* classifier returns, not the branch of an absent classifier.
C21_NeutralScoreIsAvailable ==
  Finished("_ensemble_score") => ret.weights = WeightsForLoaded

\* a loaded ML classifier returned exactly 0.5 next to a transformer that
\* returned another score
C21_Witness ==
  /\ Finished("_ensemble_score")
  /\ call.mlModel.kind = "returns"
  /\ call.ml_score = NEUTRAL
  /\ call.trModel.kind = "returns"
  /\ call.transformer_score = 61

\* C22: a signal that is missing has weight 0 in the branch taken and adds
\* nothing to the base weighted sum: the ML classifier when none is loaded, the
\* transformer classifier when none is loaded, the URL signal when no URL was
\* found.
C22_MissingSignalHasNoWeight ==
  Finished("_ensemble_score") =>
     /\ call.mlModel = NoModel => ret.weights.ml * call.ml_score = 0
     /\ call.trModel = NoModel => ret.weights.transformer * call.transformer_score = 0
     /\ Len(call.url_results) = 0 => ret.weights.url = 0

\* the ensemble ran with a transformer and without an ML classifier
C22_Witness ==
  /\ Finished("_ensemble_score")
  /\ call.mlModel = NoModel
  /\ call.trModel.kind = "returns"
  /\ call.transformer_score = 61
  /\ Len(call.url_results) = 0

\* the reason the subdomain check appends
SubdomainReason == Reason("Brand name in subdomain (likely typosquatting)", <<>>)

\* a known brand is matched in a part of a host name
NamesBrand(part) == Len(brand_findall(part)) > 0

\* C23: a URL gets the subdomain typosquatting reason exactly when a known brand is in its
\* subdomain and none is in its registered domain; with a brand in both it does not get it
C23_SubdomainReasonNeedsForeignDomain ==
  Finished("_analyze_urls") =>
     \A i \in DOMAIN ret.value :
        SubdomainReason \in Range(ret.value[i].reasons)
          <=> NamesBrand(ret.extracted[i].subdomain) /\ ~NamesBrand(ret.extracted[i].domain)

C23_Witness == Finished("_analyze_urls") /\ NamesBrand(ret.extracted[1].subdomain) /\ NamesBrand(ret.extracted[1].domain) /\ SubdomainReason \in Range(ret.value[1].reasons)

\* d is b with one character replaced, one inserted or one deleted
AtEditDistanceOne(d, b) ==
  \/ Len(d) = Len(b) /\ Cardinality({i \in DOMAIN b : d[i] # b[i]}) = 1
  \/ Len(d) = Len(b) + 1 /\ \E i \in DOMAIN d : SubSeq(d, 1, i - 1) \o SubSeq(d, i + 1, Len(d)) = b
  \/ Len(b) = Len(d) + 1 /\ \E i \in DOMAIN b : SubSeq(b, 1, i - 1) \o SubSeq(b, i + 1, Len(b)) = d

\* C24: for a label at edit distance exactly 1 from a known brand (one character
\* substituted, inserted or deleted anywhere) the misspelling check reports a brand
C24_EditDistanceOneReported ==
  Finished("_detect_brand_misspelling") =>
     ((\E b \in Range(KNOWN_BRANDS) : AtEditDistanceOne(call.domain, b)) => ret.value # None)

C24_Witness == Finished("_detect_brand_misspelling") /\ Len(call.domain) = 7 /\ AtEditDistanceOne(call.domain, KNOWN_BRANDS[1]) /\ call.domain[4] = "x" /\ ret.value = None

\* d is b with one or more of its letters replaced by the digits of the table
IsLeetVariant(d, b) ==
  /\ Len(d) = Len(b)
  /\ d # b
  /\ \A i \in DOMAIN b : d[i] = b[i] \/ d[i] = LeetDigit(b[i])

\* C25: for a label made from a known brand b by replacing one or more letters with
\* their leetspeak digits, the misspelling check reports b, also with two or more replaced
C25_LeetVariantReported ==
  Finished("_detect_brand_misspelling") =>
     \A b \in Range(KNOWN_BRANDS) : IsLeetVariant(call.domain, b) => ret.value = b

C25_Witness == Finished("_detect_brand_misspelling") /\ IsLeetVariant(call.domain, KNOWN_BRANDS[1]) /\ Cardinality({i \in DOMAIN call.domain : call.domain[i] # KNOWN_BRANDS[1][i]}) = 2 /\ ret.value = None

\* the text holds an http(s):// URL whose public suffix is a suspicious TLD
HasSuspiciousTldUrl(text) ==
  \E i \in DOMAIN text :
     /\ IsUrlToken(text[i])
     /\ tldextract(text[i]).suffix \in Range(SUSPICIOUS_TLDS)

\* the rule score lies between the clamped sum less 0.5 and the clamped sum, and is not negative
ReducedByAtMostHalf(rule_score, sum) ==
  /\ rule_score >= 0
  /\ rule_score <= Min(sum, 100)
  /\ Min(sum, 100) - rule_score <= 50

\* C26: with an http(s):// URL under a suspicious TLD in the text the rule score is the sum
\* of the indicator contributions, clamped to 1.0, with no safe-context reduction however
\* many safe-context patterns match; otherwise at most 0.5 is subtracted and the score is
\* never below 0
C26_NoReductionWithSuspiciousUrl ==
  Finished("_rule_based_detection") =>
     IF HasSuspiciousTldUrl(call.text)
     THEN ret.value.score = Min(ret.score, 100)
     ELSE ReducedByAtMostHalf(ret.value.score, ret.score)

\* C26 as stated: with such a URL the rule score equals the sum of the contributions
C26_ScoreIsSumWithSuspiciousUrl ==
  Finished("_rule_based_detection") =>
     IF HasSuspiciousTldUrl(call.text)
     THEN ret.value.score = ret.score
     ELSE ReducedByAtMostHalf(ret.value.score, ret.score)

C26_Witness == Finished("_rule_based_detection") /\ HasSuspiciousTldUrl(call.text) /\ ret.safe_context_score = 50 /\ ret.score > 0 /\ ret.value.score = ret.score

C26_WitnessReduced == Finished("_rule_based_detection") /\ ~HasSuspiciousTldUrl(call.text) /\ ret.safe_context_score = 50 /\ ret.score - ret.value.score = 50

\* C27: in every result of detect a verdict of phishing carries a threat level other than
\* NONE (the lowest decision threshold, 0.32, is above 0.30 where the level leaves NONE)
C27_PhishingHasThreatLevel ==
  EveryResult(LAMBDA r : r.is_phishing => r.threat_level # "NONE")

C27_Witness == result # None /\ result.is_phishing /\ result.confidence < 350000 /\ result.threat_level = "LOW"

\* C28: for scan_type email, sms, url or auto a verdict of phishing has phishing_type
\* EMAIL, SMS or URL, never NONE: auto is resolved to url, sms or email first
C28_PhishingHasType ==
  EveryResult(LAMBDA r : r.is_phishing => r.phishing_type \in {"EMAIL", "SMS", "URL"})

C28_Witness == result # None /\ req_scan_type = "auto" /\ result.is_phishing /\ result.phishing_type = "EMAIL"

\* every deployed[model_type] names a version present in versions[model_type] with status deployed
DeployedIsPresent ==
  \A model_type \in DOMAIN registry.deployed :
     /\ model_type \in DOMAIN registry.versions
     /\ registry.deployed[model_type] \in DOMAIN registry.versions[model_type]
     /\ registry.versions[model_type][registry.deployed[model_type]].status = "deployed"

\* the step is a rollback or deploy_version that returns False
ReturnsFalse ==
  /\ call' # None
  /\ call'.fn \in {"rollback", "deploy_version"}
  /\ ret'.value = FALSE

\* C29: after any sequence of register_version, deploy_version, rollback and
\* cleanup_old_versions, a set deployed[model_type] names a version still in
\* versions[model_type] whose status is "deployed"; a rollback or deploy that returns
\* False leaves the registry unchanged
C29_DeployedVersionConsistent ==
  []DeployedIsPresent /\ [][ReturnsFalse => registry' = registry]_vars

C29_Witness == call # None /\ call.fn = "rollback" /\ ret.value = FALSE /\ call.model_type \in DOMAIN registry.deployed /\ registry.versions[call.model_type][registry.deployed[call.model_type]].status = "rolled_back"

\* the coroutine is inside the body of run_weekly_job, suspended at an await
InBody(t) == scheduler.tasks[t].pc = "retraining"

\* the latest call of the coroutine returned "skipped"
Skipped(t) == scheduler.tasks[t].pc = "returned" /\ scheduler.tasks[t].returned.status = "skipped"

\* one body at most, is_running set exactly while a body is in progress, and no
\* retraining in a skipped call
OneJobAtATime ==
  /\ Cardinality({t \in 1..MaxTasks : InBody(t)}) <= 1
  /\ scheduler.is_running <=> \E t \in 1..MaxTasks : InBody(t)
  /\ \A t \in 1..MaxTasks : Skipped(t) => Len(scheduler.tasks[t].results) = 0

\* a call made while a body is in progress returns "skipped", and only such a call does
SkippedWhenRunning ==
  \A t \in 1..MaxTasks :
     scheduler'.tasks[t].calls = scheduler.tasks[t].calls + 1 =>
        ((\E u \in 1..MaxTasks : InBody(u))
           <=> (scheduler'.tasks[t].pc = "returned"
                  /\ scheduler'.tasks[t].returned.status = "skipped"))

\* C30: at most one run_weekly_job body executes at a time; a call made while another is
\* in progress returns "skipped" without retraining; is_running is reset to false when a
\* job ends, however it ends, so that a later call eventually finds it false and runs
C30_OneJobAndFlagReset ==
  /\ []OneJobAtATime
  /\ [][SkippedWhenRunning]_vars
  /\ (scheduler.is_running ~> ~scheduler.is_running)

C30_Witness == \E t, u \in 1..MaxTasks : Skipped(t) /\ scheduler.tasks[u].pc = "raised" /\ scheduler.tasks[u].calls = 1 /\ ~scheduler.is_running

\* a call runs the body after an earlier job ended with an exception
C30_WitnessLaterRun == \E t, u \in 1..MaxTasks : InBody(t) /\ scheduler.tasks[u].pc = "raised" /\ scheduler.last_run = 1
====
